---- MODULE Spec2Model ----
(***************************************************************************)
(* Kidverse MVP: the rule-based alert detection engine                     *)
(* (AlertDetectionService, src/unnamed/part_002).                          *)
(*                                                                         *)
(* Numbers.  JavaScript numbers are modelled as exact fixed-point          *)
(* integers:                                                               *)
(*   - a risk value r is the integer r * RiskUnit (thousandths): every     *)
(*     product of a catalog riskScore with the multipliers 1.5, 1.3, 1.2   *)
(*     is a whole number of thousandths, and the IEEE rounding error of    *)
(*     those products (< 1e-14) never crosses a threshold 3, 5, 7, 9, 10;  *)
(*   - a confidence c is the integer c * 100 * ConfUnit, ConfUnit being    *)
(*     lcm(1..11), so that the mean over up to 11 categories is exact.     *)
(* Text.  A JavaScript string is a TLA+ string; regular expressions are    *)
(* matched character by character on it.                                   *)
(***************************************************************************)
EXTENDS Integers, Sequences, FiniteSets, TLC

(***************************************************************************)
(* Bounds of the checked input space.                                      *)
(***************************************************************************)
MaxFragments == 2
MaxBatch == 2
MaxThreats == 2
MaxRiskSteps == 24
MaxClock == 1
MaxAnalyses == 3

(***************************************************************************)
(* Fixed-point units.                                                      *)
(***************************************************************************)
RiskUnit == 1000
ConfUnit == 27720

Risk(n) == n * RiskUnit
Pct(n) == n * ConfUnit

\* the element of a one-element set; The({ e : v \in {x} }) is e with v
\* standing for the value of x
The(S) == CHOOSE y \in S : TRUE

MathMin(a, b) == IF a <= b THEN a ELSE b

RECURSIVE MathMax(_)
MathMax(xs) ==
  IF Len(xs) = 1 THEN xs[1]
  ELSE The({ IF xs[1] >= m THEN xs[1] ELSE m : m \in {MathMax(Tail(xs))} })

RECURSIVE SumSeq(_)
SumSeq(xs) == IF xs = <<>> THEN 0 ELSE xs[1] + SumSeq(Tail(xs))

(***************************************************************************)
(* Strings and regular expressions.                                        *)
(*                                                                         *)
(* Every regular expression of the catalog carries the flag i only and has *)
(* the shape  prefix (alt1|alt2|...) suffix  with literal parts, the group *)
(* possibly optional or absent.  A regex is modelled by its source, its    *)
(* prefix, the ordered list of the texts the group can match (in the       *)
(* priority order of the backtracking matcher: left to right, an optional  *)
(* group first present, then absent), its suffix, all in lower case, and   *)
(* its global flag.  A string value carries, next to its text, the         *)
(* case-folded text the i flag compares with.                              *)
(***************************************************************************)
\* upper-case ASCII letters and their lower-case forms
ToLowerCase ==
  [A |-> "a", B |-> "b", C |-> "c", D |-> "d", E |-> "e", F |-> "f", G |-> "g",
   H |-> "h", I |-> "i", J |-> "j", K |-> "k", L |-> "l", M |-> "m", N |-> "n",
   O |-> "o", P |-> "p", Q |-> "q", R |-> "r", S |-> "s", T |-> "t", U |-> "u",
   V |-> "v", W |-> "w", X |-> "x", Y |-> "y", Z |-> "z"]

\* Canonicalize of the i flag on one character (ASCII letters fold).
Canonicalize(ch) == IF ch \in DOMAIN ToLowerCase THEN ToLowerCase[ch] ELSE ch

RECURSIVE FoldFrom(_, _)
FoldFrom(s, i) ==
  IF i > Len(s) THEN "" ELSE Canonicalize(SubSeq(s, i, i)) \o FoldFrom(s, i + 1)

Fold(s) == FoldFrom(s, 1)

Str(s) == [t |-> "string", s |-> s, folded |-> Fold(s)]

RegExpGlobal(source, parts) ==
  [source |-> source, pre |-> parts[1], alts |-> parts[2], post |-> parts[3],
   global |-> TRUE]
RegExp(source, parts) ==
  [source |-> source, pre |-> parts[1], alts |-> parts[2], post |-> parts[3],
   global |-> FALSE]

\* literal / a(o)?b / a(x1|x2|...)b
Lit(s) == <<s, <<"">>, "">>
Opt(a, o, b) == <<a, <<o, "">>, b>>
Alt(a, xs, b) == <<a, xs, b>>

Digits == <<"0","1","2","3","4","5","6","7","8","9">>

\* (1[8-9]|[2-9]\d): 18, 19, then 20..99
AdultAges ==
  <<"18", "19">> \o
  [k \in 1..80 |-> Digits[((k - 1) \div 10) + 3] \o Digits[((k - 1) % 10) + 1]]

\* the literal x occurs in the folded text f at 1-based position i
LitAt(f, i, x) ==
  x = "" \/ (i + Len(x) - 1 <= Len(f) /\ SubSeq(f, i, i + Len(x) - 1) = x)

\* the alternative of R with which R matches the folded text f at 1-based
\* position i (the first one, in priority order, after which the suffix
\* matches), 0 when R does not match there
AltAt(R, f, i) ==
  LET j == i + Len(R.pre)
      ok(k) == /\ LitAt(f, j, R.alts[k])
               /\ LitAt(f, j + Len(R.alts[k]), R.post)
  IN IF LitAt(f, i, R.pre) /\ \E k \in 1..Len(R.alts) : ok(k)
     THEN CHOOSE k \in 1..Len(R.alts) :
            ok(k) /\ \A h \in 1..(k - 1) : ~ok(h)
     ELSE 0

NoMatch == [found |-> FALSE, index |-> 0, text |-> ""]

\* the last position from i on at which R matches the folded text f
LastMatchFrom(R, f, i) ==
  IF \E j \in i..Len(f) : AltAt(R, f, j) # 0
  THEN CHOOSE j \in i..Len(f) :
         /\ AltAt(R, f, j) # 0
         /\ \A h \in (j + 1)..Len(f) : AltAt(R, f, h) = 0
  ELSE 0

\* the first position from i on at which R matches the folded text f, 0 when
\* there is none
RECURSIVE FirstMatchFrom(_, _, _)
FirstMatchFrom(R, f, i) ==
  IF i > Len(f) THEN 0
  ELSE IF AltAt(R, f, i) # 0 THEN i
  ELSE FirstMatchFrom(R, f, i + 1)

\* RegExpBuiltinExec: the leftmost match of R in the string S at or after the
\* start index, which is lastIndex for a global regex and 0 otherwise.
\* Returns the match (0-based index, matched text of S) and the value
\* lastIndex is left with.
RegExpExec(R, S, lastIndex) ==
  The({ IF i = 0
        THEN [match |-> NoMatch, lastIndex |-> IF R.global THEN 0 ELSE lastIndex]
        ELSE The({ [match |-> [found |-> TRUE, index |-> i - 1,
                               text |-> SubSeq(S.s, i, i + n - 1)],
                    lastIndex |-> IF R.global THEN i - 1 + n ELSE lastIndex]
                   : n \in {Len(R.pre) + Len(R.alts[AltAt(R, S.folded, i)])
                              + Len(R.post)} })
        : i \in {FirstMatchFrom(R, S.folded,
                                (IF R.global THEN lastIndex ELSE 0) + 1)} })

(***************************************************************************)
(* The pattern catalog built by initializePatterns.  Each group is the     *)
(* list Object.entries yields for it (insertion order) of                  *)
(* <<category, config>>.                                                   *)
(***************************************************************************)
predatoryPatterns == <<
  <<"trustBuilding", [
    patterns |-> <<
      RegExp("you're so mature for your age", Lit("you're so mature for your age")),
      RegExp("you understand me better than", Lit("you understand me better than")),
      RegExp("don't tell (your )?parents", Opt("don't tell ", "your ", "parents")),
      RegExp("this is our (little )?secret", Opt("this is our ", "little ", "secret")),
      RegExp("you're different from other kids", Lit("you're different from other kids")),
      RegExp("you're special", Lit("you're special")),
      RegExp("i trust you more than", Lit("i trust you more than")),
      RegExp("you can trust me", Lit("you can trust me")),
      RegExp("i won't tell anyone", Lit("i won't tell anyone")),
      RegExp("keep this between us", Lit("keep this between us")) >>,
    riskScore |-> Risk(8),
    confidence |-> Pct(85) ]>>,
  <<"inappropriateCompliments", [
    patterns |-> <<
      RegExp("you're so (pretty|beautiful|hot|sexy)",
             Alt("you're so ", <<"pretty", "beautiful", "hot", "sexy">>, "")),
      RegExp("i bet you look good", Lit("i bet you look good")),
      RegExp("you have a nice (body|figure)",
             Alt("you have a nice ", <<"body", "figure">>, "")),
      RegExp("are you developed", Lit("are you developed")),
      RegExp("do you have a boyfriend", Lit("do you have a boyfriend")),
      RegExp("have you kissed anyone", Lit("have you kissed anyone")),
      RegExp("you're growing up", Lit("you're growing up")),
      RegExp("becoming a woman", Lit("becoming a woman")) >>,
    riskScore |-> Risk(9),
    confidence |-> Pct(90) ]>>,
  <<"giftManipulation", [
    patterns |-> <<
      RegExp("i'll buy you", Lit("i'll buy you")),
      RegExp("want some (robux|money|gift)",
             Alt("want some ", <<"robux", "money", "gift">>, "")),
      RegExp("i can get you", Lit("i can get you")),
      RegExp("free (robux|premium|items)",
             Alt("free ", <<"robux", "premium", "items">>, "")),
      RegExp("special gift for you", Lit("special gift for you")),
      RegExp("you deserve something nice", Lit("you deserve something nice")),
      RegExp("let me spoil you", Lit("let me spoil you")) >>,
    riskScore |-> Risk(7),
    confidence |-> Pct(80) ]>>,
  <<"emotionalManipulation", [
    patterns |-> <<
      RegExp("no one understands you like i do", Lit("no one understands you like i do")),
      RegExp("your parents don't get it", Lit("your parents don't get it")),
      RegExp("i'm the only one who cares", Lit("i'm the only one who cares")),
      RegExp("you can tell me anything", Lit("you can tell me anything")),
      RegExp("i'm here for you", Lit("i'm here for you")),
      RegExp("you're lonely", Lit("you're lonely")),
      RegExp("i know how you feel", Lit("i know how you feel")),
      RegExp("we have a connection", Lit("we have a connection")) >>,
    riskScore |-> Risk(6),
    confidence |-> Pct(75) ]>> >>

personalInfoPatterns == <<
  <<"directRequests", [
    patterns |-> <<
      RegExp("what's your (real )?name", Opt("what's your ", "real ", "name")),
      RegExp("where do you live", Lit("where do you live")),
      RegExp("what (school|grade) are you in",
             Alt("what ", <<"school", "grade">>, " are you in")),
      RegExp("what's your address", Lit("what's your address")),
      RegExp("what's your phone number", Lit("what's your phone number")),
      RegExp("how old are you really", Lit("how old are you really")),
      RegExp("send me a (pic|picture|photo)",
             Alt("send me a ", <<"pic", "picture", "photo">>, "")),
      RegExp("what do you look like", Lit("what do you look like")),
      RegExp("are you home alone", Lit("are you home alone")),
      RegExp("when are your parents home", Lit("when are your parents home")) >>,
    riskScore |-> Risk(9),
    confidence |-> Pct(95) ]>>,
  <<"indirectGathering", [
    patterns |-> <<
      RegExp("what city are you from", Lit("what city are you from")),
      RegExp("what state do you live in", Lit("what state do you live in")),
      RegExp("what's your timezone", Lit("what's your timezone")),
      RegExp("what time do you get home", Lit("what time do you get home")),
      RegExp("do you walk to school", Lit("do you walk to school")),
      RegExp("are you allowed out", Lit("are you allowed out")),
      RegExp("when do you get off school", Lit("when do you get off school")),
      RegExp("what's your schedule like", Lit("what's your schedule like")) >>,
    riskScore |-> Risk(7),
    confidence |-> Pct(80) ]>>,
  <<"mediaRequests", [
    patterns |-> <<
      RegExp("send (me )?a selfie", Opt("send ", "me ", "a selfie")),
      RegExp("can i see what you look like", Lit("can i see what you look like")),
      RegExp("show me your room", Lit("show me your room")),
      RegExp("take a picture of", Lit("take a picture of")),
      RegExp("video chat", Lit("video chat")),
      RegExp("turn on your camera", Lit("turn on your camera")),
      RegExp("let me see you", Lit("let me see you")),
      RegExp("facetime me", Lit("facetime me")) >>,
    riskScore |-> Risk(8),
    confidence |-> Pct(90) ]>> >>

offPlatformPatterns == <<
  <<"discordPressure", [
    patterns |-> <<
      RegExp("add me on discord", Lit("add me on discord")),
      RegExp("let's talk on discord", Lit("let's talk on discord")),
      RegExp("discord is better", Lit("discord is better")),
      RegExp("we can talk privately on discord", Lit("we can talk privately on discord")),
      RegExp("my discord is", Lit("my discord is")),
      RegExp("dm me on discord", Lit("dm me on discord")),
      RegExp("voice chat on discord", Lit("voice chat on discord")) >>,
    riskScore |-> Risk(8),
    confidence |-> Pct(85) ]>>,
  <<"socialPlatforms", [
    patterns |-> <<
      RegExp("add me on (snapchat|snap|instagram|tiktok|whatsapp)",
             Alt("add me on ", <<"snapchat", "snap", "instagram", "tiktok", "whatsapp">>, "")),
      RegExp("text me at", Lit("text me at")),
      RegExp("call me at", Lit("call me at")),
      RegExp("my (snap|insta|phone) is",
             Alt("my ", <<"snap", "insta", "phone">>, " is")),
      RegExp("follow me on", Lit("follow me on")),
      RegExp("dm me on", Lit("dm me on")) >>,
    riskScore |-> Risk(7),
    confidence |-> Pct(80) ]>>,
  <<"meetingRequests", [
    patterns |-> <<
      RegExp("want to meet (up|irl)", Alt("want to meet ", <<"up", "irl">>, "")),
      RegExp("let's meet in person", Lit("let's meet in person")),
      RegExp("can we hang out", Lit("can we hang out")),
      RegExp("i live near you", Lit("i live near you")),
      RegExp("i can pick you up", Lit("i can pick you up")),
      RegExp("meet me at", Lit("meet me at")),
      RegExp("come over to my place", Lit("come over to my place")),
      RegExp("let's meet somewhere", Lit("let's meet somewhere")) >>,
    riskScore |-> Risk(10),
    confidence |-> Pct(95) ]>>,
  <<"platformSwitching", [
    patterns |-> <<
      RegExp("roblox chat is limited", Lit("roblox chat is limited")),
      RegExp("we can talk better on", Lit("we can talk better on")),
      RegExp("roblox might ban us", Lit("roblox might ban us")),
      RegExp("let's move to", Lit("let's move to")),
      RegExp("this platform is better", Lit("this platform is better")),
      RegExp("more privacy on", Lit("more privacy on")),
      RegExp("roblox is watching", Lit("roblox is watching")) >>,
    riskScore |-> Risk(6),
    confidence |-> Pct(70) ]>> >>

\* multipliers in tenths: 1.5, 1.3, 1.2
contextEnhancers == <<
  <<"ageGap", [
    patterns |-> <<
      RegExp("i'm (1[8-9]|[2-9]\\d)", Alt("i'm ", AdultAges, "")),
      RegExp("i'm an adult", Lit("i'm an adult")),
      RegExp("i'm older", Lit("i'm older")),
      RegExp("age is just a number", Lit("age is just a number")) >>,
    multiplier |-> 15 ]>>,
  <<"secrecy", [
    patterns |-> <<
      RegExp("don't tell", Lit("don't tell")),
      RegExp("keep (this|it) secret", Alt("keep ", <<"this", "it">>, " secret")),
      RegExp("between us", Lit("between us")),
      RegExp("our secret", Lit("our secret")),
      RegExp("private", Lit("private")) >>,
    multiplier |-> 13 ]>>,
  <<"urgency", [
    patterns |-> <<
      RegExp("right now", Lit("right now")),
      RegExp("quickly", Lit("quickly")),
      RegExp("before someone", Lit("before someone")),
      RegExp("hurry", Lit("hurry")),
      RegExp("fast", Lit("fast")) >>,
    multiplier |-> 12 ]>> >>

(***************************************************************************)
(* JavaScript values handed to the service.                                *)
(***************************************************************************)
Undefined == [t |-> "undefined"]
Null == [t |-> "null"]
Num(n) == [t |-> "number", n |-> n]
Arr == [t |-> "array"]
Obj(text, timestamp) == [t |-> "object", text |-> text, timestamp |-> timestamp]

IsString(v) == v.t = "string"

\* ToBoolean
Truthy(v) ==
  CASE v.t = "undefined" -> FALSE
    [] v.t = "null" -> FALSE
    [] v.t = "string" -> v.s # ""
    [] v.t = "number" -> v.n # 0
    [] OTHER -> TRUE

\* v.text, v.timestamp: reading a property of undefined or null throws, a
\* primitive or an array has no such property
CanReadProperty(v) == v.t \notin {"undefined", "null"}
GetText(v) == IF v.t = "object" THEN v.text ELSE Undefined
GetTimestamp(v) == IF v.t = "object" THEN v.timestamp ELSE Undefined

TypeError == [threw |-> TRUE, error |-> "TypeError"]

\* String.prototype.match(regexp): exec for a regex without the g flag; with
\* it, lastIndex restarts from 0, the result is the array of all matched
\* texts (no index property) and lastIndex is left at 0
UndefinedIndex == 0 - 1
StringMatch(S, R, lastIndex) ==
  IF R.global
  THEN The({ [match |-> [r.match EXCEPT !.index = UndefinedIndex], lastIndex |-> 0]
             : r \in {RegExpExec(R, S, 0)} })
  ELSE RegExpExec(R, S, lastIndex)

\* RegExp.prototype.test(string)
RegExpTest(R, S, lastIndex) ==
  The({ [value |-> r.match.found, lastIndex |-> r.lastIndex]
        : r \in {RegExpExec(R, S, lastIndex)} })

(***************************************************************************)
(* AlertDetectionService.  Every method takes, next to its arguments, the  *)
(* lastIndex values of the regex objects it uses and returns them as it    *)
(* leaves them: they are the only part of the instance a call can write.   *)
(***************************************************************************)

\* findPatternMatches from pattern k on; message.match throws unless message
\* is a string
RECURSIVE findPatternMatchesFrom(_, _, _, _)
findPatternMatchesFrom(message, patterns, li, k) ==
  IF k > Len(patterns) THEN [threw |-> FALSE, matches |-> <<>>, li |-> li]
  ELSE IF ~IsString(message) THEN TypeError
  ELSE The({
         The({ IF m.match.found
               THEN [rest EXCEPT !.matches =
                       << [text |-> m.match.text, pattern |-> patterns[k].source,
                           index |-> m.match.index] >> \o @]
               ELSE rest
               : rest \in {findPatternMatchesFrom(
                             message, patterns,
                             [li EXCEPT ![k] = m.lastIndex], k + 1)} })
         : m \in {StringMatch(message, patterns[k], li[k])} })

findPatternMatches(message, patterns, li) ==
  findPatternMatchesFrom(message, patterns, li, 1)

\* a string value a lookup returns
Text(s) == [t |-> "string", s |-> s]

\* the properties an object literal inherits from Object.prototype
ObjectPrototypeKeys ==
  {"constructor", "toString", "toLocaleString", "valueOf", "hasOwnProperty",
   "isPrototypeOf", "propertyIsEnumerable", "__proto__", "__defineGetter__",
   "__defineSetter__", "__lookupGetter__", "__lookupSetter__"}

\* descriptions[category] for a key the literal does not define: the
\* inherited member (a function, or Object.prototype for __proto__) when
\* Object.prototype has the key, undefined otherwise
InheritedMember(category) ==
  IF category \in ObjectPrototypeKeys
  THEN IF category = "__proto__"
       THEN [t |-> "object", text |-> Undefined, timestamp |-> Undefined]
       ELSE [t |-> "function", name |-> category]
  ELSE Undefined

\* left || right
OrElse(left, right) == IF Truthy(left) THEN left ELSE right

getPredatoryDescription(category) ==
  OrElse(
    CASE category = "trustBuilding" ->
           Text("Attempting to build inappropriate trust and isolate the child")
      [] category = "inappropriateCompliments" ->
           Text("Making inappropriate comments about appearance or development")
      [] category = "giftManipulation" ->
           Text("Offering gifts or rewards to manipulate the child")
      [] category = "emotionalManipulation" ->
           Text("Using emotional manipulation to create dependency")
      [] OTHER -> InheritedMember(category),
    Text("Predatory language detected"))

getPersonalInfoDescription(category) ==
  OrElse(
    CASE category = "directRequests" ->
           Text("Directly requesting personal identifying information")
      [] category = "indirectGathering" ->
           Text("Indirectly gathering location or schedule information")
      [] category = "mediaRequests" ->
           Text("Requesting photos, videos, or visual contact")
      [] OTHER -> InheritedMember(category),
    Text("Personal information request detected"))

getOffPlatformDescription(category) ==
  OrElse(
    CASE category = "discordPressure" ->
           Text("Pressuring to move conversation to Discord")
      [] category = "socialPlatforms" ->
           Text("Requesting contact on other social platforms")
      [] category = "meetingRequests" ->
           Text("Attempting to arrange in-person meetings")
      [] category = "platformSwitching" ->
           Text("Justifying need to switch communication platforms")
      [] OTHER -> InheritedMember(category),
    Text("Off-platform pressure detected"))

\* the loop shared by the three analyze methods, from entry c of the group on
\* this.getPredatoryDescription / getPersonalInfoDescription /
\* getOffPlatformDescription, as called by the analyze method of the type
DescriptionOf(type, category) ==
  CASE type = "predatory_language" -> getPredatoryDescription(category)
    [] type = "personal_info_request" -> getPersonalInfoDescription(category)
    [] type = "off_platform_pressure" -> getOffPlatformDescription(category)

\* if (matches.length > 0)
hasMatchesLoose(matches) == Len(matches) >= 0
hasMatches(matches) == Len(matches) > 0

\* riskScore: config.riskScore * matches.length
RECURSIVE analyzeFromBoosted(_, _, _, _, _)
analyzeFromBoosted(type, entries, message, li, c) ==
  IF c > Len(entries) THEN [threw |-> FALSE, threats |-> <<>>, li |-> li]
  ELSE The({
         IF found.threw THEN TypeError
         ELSE The({
                IF rest.threw THEN TypeError
                ELSE IF hasMatches(found.matches)
                THEN [rest EXCEPT !.threats =
                        << [type |-> type,
                            category |-> entries[c][1],
                            riskScore |-> entries[c][2].riskScore * Len(found.matches),
                            confidence |-> entries[c][2].confidence,
                            matches |-> found.matches,
                            description |-> DescriptionOf(type, entries[c][1])] >>
                        \o @]
                ELSE rest
                : rest \in {analyzeFromBoosted(type, entries, message,
                                        [li EXCEPT ![c] = found.li], c + 1)} })
         : found \in {findPatternMatches(message, entries[c][2].patterns, li[c])} })

RECURSIVE analyzeFrom(_, _, _, _, _)
analyzeFrom(type, entries, message, li, c) ==
  IF c > Len(entries) THEN [threw |-> FALSE, threats |-> <<>>, li |-> li]
  ELSE The({
         IF found.threw THEN TypeError
         ELSE The({
                IF rest.threw THEN TypeError
                ELSE IF hasMatches(found.matches)
                THEN [rest EXCEPT !.threats =
                        << [type |-> type,
                            category |-> entries[c][1],
                            riskScore |-> entries[c][2].riskScore,
                            confidence |-> entries[c][2].confidence,
                            matches |-> found.matches,
                            description |-> DescriptionOf(type, entries[c][1])] >>
                        \o @]
                ELSE rest
                : rest \in {analyzeFrom(type, entries, message,
                                        [li EXCEPT ![c] = found.li], c + 1)} })
         : found \in {findPatternMatches(message, entries[c][2].patterns, li[c])} })

analyzePredatoryLanguage(this, message) ==
  analyzeFrom("predatory_language", this.predatoryPatterns, message,
              this.lastIndex.predatoryPatterns, 1)

analyzePersonalInfoRequests(this, message) ==
  analyzeFrom("personal_info_request", this.personalInfoPatterns, message,
              this.lastIndex.personalInfoPatterns, 1)

\* the personal-information rules analysed a second time
analyzeOffPlatformPressureCopied(this, message) ==
  analyzeFrom("off_platform_pressure", this.personalInfoPatterns, message,
              this.lastIndex.personalInfoPatterns, 1)

analyzeOffPlatformPressure(this, message) ==
  analyzeFrom("off_platform_pressure", this.offPlatformPatterns, message,
              this.lastIndex.offPlatformPatterns, 1)

\* config.patterns.some(pattern => pattern.test(message)), from pattern k on:
\* stops at the first pattern that matches
RECURSIVE someTestFrom(_, _, _, _)
someTestFrom(message, patterns, li, k) ==
  IF k > Len(patterns) THEN [value |-> FALSE, li |-> li]
  ELSE The({ IF t.value
             THEN [value |-> TRUE, li |-> [li EXCEPT ![k] = t.lastIndex]]
             ELSE someTestFrom(message, patterns,
                               [li EXCEPT ![k] = t.lastIndex], k + 1)
             : t \in {RegExpTest(patterns[k], message, li[k])} })

\* enhancedRisk /= config.multiplier
TimesInverse(enhancedRisk, multiplier) == (enhancedRisk * 10) \div multiplier

\* enhancedRisk += config.multiplier
TimesAdditive(enhancedRisk, multiplier) ==
  enhancedRisk + multiplier * (RiskUnit \div 10)

\* enhancedRisk *= config.multiplier (multiplier in tenths)
Times(enhancedRisk, multiplier) == (enhancedRisk * multiplier) \div 10

RECURSIVE applyContextEnhancersFrom(_, _, _, _, _)
applyContextEnhancersFrom(entries, message, enhancedRisk, li, e) ==
  IF e > Len(entries) THEN [value |-> enhancedRisk, li |-> li]
  ELSE The({
         applyContextEnhancersFrom(
           entries,
           message,
           IF hasEnhancer.value
           THEN Times(enhancedRisk, entries[e][2].multiplier)
           ELSE enhancedRisk,
           [li EXCEPT ![e] = hasEnhancer.li],
           e + 1)
         : hasEnhancer \in {someTestFrom(message, entries[e][2].patterns, li[e], 1)} })

applyContextEnhancers(this, message, baseRisk) ==
  applyContextEnhancersFrom(this.contextEnhancers, message, baseRisk,
                            this.lastIndex.contextEnhancers, 1)

TierRecommendationStrict(riskScore) ==
  IF riskScore > Risk(9) THEN
    << [priority |-> "CRITICAL", action |-> "IMMEDIATE_INTERVENTION",
        message |-> "Immediately block user and alert parents/guardians. Contact platform safety team."] >>
  ELSE IF riskScore > Risk(7) THEN
    << [priority |-> "HIGH", action |-> "ALERT_PARENTS",
        message |-> "Alert parents and recommend blocking user. Monitor future interactions closely."] >>
  ELSE IF riskScore > Risk(5) THEN
    << [priority |-> "MEDIUM", action |-> "WARNING",
        message |-> "Show safety warning to child. Log interaction for pattern analysis."] >>
  ELSE IF riskScore > Risk(3) THEN
    << [priority |-> "LOW", action |-> "MONITOR",
        message |-> "Continue monitoring. Educate child about online safety."] >>
  ELSE << >>

\* the tier recommendation chosen by the if / else-if chain on riskScore
TierRecommendation(riskScore) ==
  IF riskScore >= Risk(9) THEN
    << [priority |-> "CRITICAL", action |-> "IMMEDIATE_INTERVENTION",
        message |-> "Immediately block user and alert parents/guardians. Contact platform safety team."] >>
  ELSE IF riskScore >= Risk(7) THEN
    << [priority |-> "HIGH", action |-> "ALERT_PARENTS",
        message |-> "Alert parents and recommend blocking user. Monitor future interactions closely."] >>
  ELSE IF riskScore >= Risk(5) THEN
    << [priority |-> "MEDIUM", action |-> "WARNING",
        message |-> "Show safety warning to child. Log interaction for pattern analysis."] >>
  ELSE IF riskScore >= Risk(3) THEN
    << [priority |-> "LOW", action |-> "MONITOR",
        message |-> "Continue monitoring. Educate child about online safety."] >>
  ELSE << >>

RECURSIVE TypeRecommendationsPerThreat(_)
TypeRecommendationsPerThreat(threats) ==
  IF threats = <<>> THEN <<>>
  ELSE (IF threats[1].type = "off_platform_pressure"
        THEN << [priority |-> "HIGH", action |-> "PLATFORM_EDUCATION",
                 message |-> "Educate child about staying on safe platforms and not sharing contact information."] >>
        ELSE IF threats[1].type = "personal_info_request"
        THEN << [priority |-> "HIGH", action |-> "PRIVACY_EDUCATION",
                 message |-> "Remind child never to share personal information online."] >>
        ELSE << >>)
       \o TypeRecommendationsPerThreat(Tail(threats))

\* the recommendations added for the threat types present
TypeRecommendations(threats) ==
  LET threatTypes == {threats[i].type : i \in 1..Len(threats)}
  IN (IF "off_platform_pressure" \in threatTypes
      THEN << [priority |-> "HIGH", action |-> "PLATFORM_EDUCATION",
               message |-> "Educate child about staying on safe platforms and not sharing contact information."] >>
      ELSE << >>)
     \o
     (IF "personal_info_request" \in threatTypes
      THEN << [priority |-> "HIGH", action |-> "PRIVACY_EDUCATION",
               message |-> "Remind child never to share personal information online."] >>
      ELSE << >>)

generateRecommendations(riskScore, threats) ==
  TierRecommendation(riskScore) \o TypeRecommendations(threats)

maxRiskSum(allThreats) ==
  SumSeq([i \in 1..Len(allThreats) |-> allThreats[i].riskScore])

\* the riskScore of the first threat
maxRiskFirst(allThreats) == allThreats[1].riskScore

\* Math.max(...allThreats.map(t => t.riskScore))
maxRiskOf(allThreats) ==
  MathMax([i \in 1..Len(allThreats) |-> allThreats[i].riskScore])

avgConfidenceMax(allThreats) ==
  MathMax([i \in 1..Len(allThreats) |-> allThreats[i].confidence])

\* allThreats.reduce((sum, t) => sum + t.confidence, 0) / allThreats.length
avgConfidenceOf(allThreats) ==
  SumSeq([i \in 1..Len(allThreats) |-> allThreats[i].confidence])
    \div Len(allThreats)

overallRiskUnclamped(enhancedRisk) == enhancedRisk
overallRiskFloor(enhancedRisk) == MathMin(0, enhancedRisk)

\* results.overallRisk = Math.min(10, enhancedRisk)
overallRiskOf(enhancedRisk) == MathMin(Risk(10), enhancedRisk)

EmptyResults ==
  [overallRisk |-> 0, confidence |-> 0, threats |-> <<>>, recommendations |-> <<>>]

NoLocals == [maxRisk |-> 0, avgConfidence |-> 0, enhancedRisk |-> 0]

\* the age gap taken from context.senderAge as well
detectThreatsAgeAware(this, message, context) ==
  The({
    IF predatoryResults.threw
    THEN [threw |-> TRUE, error |-> "TypeError", LI |-> this.lastIndex,
          locals |-> NoLocals]
    ELSE The({
      IF personalInfoResults.threw
      THEN [threw |-> TRUE, error |-> "TypeError",
            LI |-> [this.lastIndex EXCEPT
                      !.predatoryPatterns = predatoryResults.li],
            locals |-> NoLocals]
      ELSE The({
        IF offPlatformResults.threw
        THEN [threw |-> TRUE, error |-> "TypeError",
              LI |-> [this.lastIndex EXCEPT
                        !.predatoryPatterns = predatoryResults.li,
                        !.personalInfoPatterns = personalInfoResults.li],
              locals |-> NoLocals]
        ELSE
          LET allThreats == predatoryResults.threats
                              \o personalInfoResults.threats
                              \o offPlatformResults.threats
              LI3 == [this.lastIndex EXCEPT
                        !.predatoryPatterns = predatoryResults.li,
                        !.personalInfoPatterns = personalInfoResults.li,
                        !.offPlatformPatterns = offPlatformResults.li]
          IN IF Len(allThreats) > 0
             THEN The({
               [threw |-> FALSE,
                value |-> [overallRisk |-> overallRiskOf(enhanced.value),
                           confidence |-> avgConfidenceOf(allThreats),
                           threats |-> allThreats,
                           recommendations |->
                             generateRecommendations(
                               overallRiskOf(enhanced.value), allThreats)],
                LI |-> [LI3 EXCEPT !.contextEnhancers = enhanced.li],
                locals |-> [maxRisk |-> maxRiskOf(allThreats),
                            avgConfidence |-> avgConfidenceOf(allThreats),
                            enhancedRisk |-> enhanced.value]]
               : enhanced \in {applyContextEnhancers(
                                 this, message,
                                 IF \E p \in context :
                                      p[1] = "senderAge" /\ p[2] >= 18
                                 THEN Times(maxRiskOf(allThreats), 15)
                                 ELSE maxRiskOf(allThreats))} })
             ELSE [threw |-> FALSE, value |-> EmptyResults, LI |-> LI3,
                   locals |-> NoLocals]
        : offPlatformResults \in {analyzeOffPlatformPressure(this, message)} })
      : personalInfoResults \in {analyzePersonalInfoRequests(this, message)} })
    : predatoryResults \in {analyzePredatoryLanguage(this, message)} })

\* detectThreats(message, context) on the instance this.  Returns the
\* completion (threw or value), the lastIndex values left behind and, for
\* inspection, the locals of the allThreats.length > 0 branch.
detectThreats(this, message, context) ==
  The({
    IF predatoryResults.threw
    THEN [threw |-> TRUE, error |-> "TypeError", LI |-> this.lastIndex,
          locals |-> NoLocals]
    ELSE The({
      IF personalInfoResults.threw
      THEN [threw |-> TRUE, error |-> "TypeError",
            LI |-> [this.lastIndex EXCEPT
                      !.predatoryPatterns = predatoryResults.li],
            locals |-> NoLocals]
      ELSE The({
        IF offPlatformResults.threw
        THEN [threw |-> TRUE, error |-> "TypeError",
              LI |-> [this.lastIndex EXCEPT
                        !.predatoryPatterns = predatoryResults.li,
                        !.personalInfoPatterns = personalInfoResults.li],
              locals |-> NoLocals]
        ELSE
          LET allThreats == predatoryResults.threats
                              \o personalInfoResults.threats
                              \o offPlatformResults.threats
              LI3 == [this.lastIndex EXCEPT
                        !.predatoryPatterns = predatoryResults.li,
                        !.personalInfoPatterns = personalInfoResults.li,
                        !.offPlatformPatterns = offPlatformResults.li]
          IN IF Len(allThreats) > 0
             THEN The({
               [threw |-> FALSE,
                value |-> [overallRisk |-> overallRiskOf(enhanced.value),
                           confidence |-> avgConfidenceOf(allThreats),
                           threats |-> allThreats,
                           recommendations |->
                             generateRecommendations(
                               overallRiskOf(enhanced.value), allThreats)],
                LI |-> [LI3 EXCEPT !.contextEnhancers = enhanced.li],
                locals |-> [maxRisk |-> maxRiskOf(allThreats),
                            avgConfidence |-> avgConfidenceOf(allThreats),
                            enhancedRisk |-> enhanced.value]]
               : enhanced \in {applyContextEnhancers(
                                 this, message, maxRiskOf(allThreats))} })
             ELSE [threw |-> FALSE, value |-> EmptyResults, LI |-> LI3,
                   locals |-> NoLocals]
        : offPlatformResults \in {analyzeOffPlatformPressure(this, message)} })
      : personalInfoResults \in {analyzePersonalInfoRequests(this, message)} })
    : predatoryResults \in {analyzePredatoryLanguage(this, message)} })

\* new Date(): the clock reading at the call
DateOf(now) == [t |-> "date", ms |-> now]

\* batchAnalyze(messages, context), from entry i on.  The callback of
\* messages.map reads message.text and message.timestamp and calls
\* detectThreats(message.text || message, context); an exception in the
\* callback ends the whole map.
RECURSIVE batchAnalyzeFrom(_, _, _, _, _)
batchAnalyzeFrom(this, messages, context, now, i) ==
  IF i > Len(messages)
  THEN [threw |-> FALSE, value |-> <<>>, LI |-> this.lastIndex]
  ELSE IF ~CanReadProperty(messages[i])
  THEN [threw |-> TRUE, error |-> "TypeError", LI |-> this.lastIndex]
  ELSE
    LET message == messages[i]
        text == IF Truthy(GetText(message)) THEN GetText(message) ELSE message
        timestamp == IF Truthy(GetTimestamp(message))
                     THEN GetTimestamp(message) ELSE DateOf(now)
    IN The({
         IF analysis.threw
         THEN [threw |-> TRUE, error |-> "TypeError", LI |-> analysis.LI]
         ELSE The({
                IF rest.threw THEN rest
                ELSE [rest EXCEPT !.value =
                        << [message |-> text,
                            timestamp |-> timestamp,
                            analysis |-> analysis.value] >> \o @]
                : rest \in {batchAnalyzeFrom(
                              [this EXCEPT !.lastIndex = analysis.LI],
                              messages, context, now, i + 1)} })
         : analysis \in {detectThreats(this, text, context)} })

batchAnalyze(this, messages, context, now) ==
  batchAnalyzeFrom(this, messages, context, now, 1)

(***************************************************************************)
(* Numbers of the statistics.  totalRisk and averageRisk are IEEE 754       *)
(* binary64 values, and every += and / rounds to nearest, ties to even.     *)
(* A value that is 0 or at least 1 is a whole number of units of 2^-52; it   *)
(* is held as that natural number, written in limbs of 12 bits, the least   *)
(* significant first, without leading zero limbs (0 is the empty sequence). *)
(***************************************************************************)
LimbBits == 12
LimbBase == 4096
MantissaBits == 53
FractionBits == 52
GuardBits == 3

RECURSIVE Pow2(_)
Pow2(k) == IF k = 0 THEN 1 ELSE 2 * Pow2(k - 1)

RECURSIVE BigNorm(_)
BigNorm(a) ==
  IF a = <<>> THEN <<>>
  ELSE IF a[Len(a)] = 0 THEN BigNorm(SubSeq(a, 1, Len(a) - 1))
  ELSE a

RECURSIVE BigOfInt(_)
BigOfInt(n) ==
  IF n = 0 THEN <<>> ELSE <<n % LimbBase>> \o BigOfInt(n \div LimbBase)

Limb(a, i) == IF i <= Len(a) THEN a[i] ELSE 0

RECURSIVE BigAddFrom(_, _, _, _)
BigAddFrom(a, b, i, carry) ==
  IF i > Len(a) /\ i > Len(b) THEN BigOfInt(carry)
  ELSE The({ <<sum % LimbBase>> \o BigAddFrom(a, b, i + 1, sum \div LimbBase)
             : sum \in {Limb(a, i) + Limb(b, i) + carry} })

BigAdd(a, b) == BigAddFrom(a, b, 1, 0)

\* a * m for a natural number m below 2^18
RECURSIVE BigTimesIntFrom(_, _, _, _)
BigTimesIntFrom(a, m, i, carry) ==
  IF i > Len(a) THEN BigOfInt(carry)
  ELSE The({ <<p % LimbBase>> \o BigTimesIntFrom(a, m, i + 1, p \div LimbBase)
             : p \in {a[i] * m + carry} })

BigTimesInt(a, m) == BigNorm(BigTimesIntFrom(a, m, 1, 0))

\* a * LimbBase^w
BigShiftLimbs(a, w) == IF a = <<>> THEN <<>> ELSE [i \in 1..w |-> 0] \o a

RECURSIVE BigTimesFrom(_, _, _)
BigTimesFrom(a, b, j) ==
  IF j > Len(b) THEN <<>>
  ELSE BigAdd(BigShiftLimbs(BigTimesInt(a, b[j]), j - 1),
              BigTimesFrom(a, b, j + 1))

BigTimes(a, b) == BigTimesFrom(a, b, 1)

\* long division of a by a natural number d below 2^18, from limb i down
RECURSIVE BigDivIntFrom(_, _, _, _)
BigDivIntFrom(a, d, i, rem) ==
  IF i = 0 THEN [q |-> <<>>, r |-> rem]
  ELSE The({ [q |-> rest.q \o <<cur \div d>>, r |-> rest.r]
             : <<cur, rest>> \in
                 { <<c, BigDivIntFrom(a, d, i - 1, c % d)>>
                   : c \in {rem * LimbBase + a[i]} } })

BigDivInt(a, d) ==
  The({ [q |-> BigNorm(x.q), r |-> x.r] : x \in {BigDivIntFrom(a, d, Len(a), 0)} })

\* a < b, compared from limb i down (a and b have the same length)
RECURSIVE BigLessFrom(_, _, _)
BigLessFrom(a, b, i) ==
  IF i = 0 THEN FALSE
  ELSE IF a[i] # b[i] THEN a[i] < b[i]
  ELSE BigLessFrom(a, b, i - 1)

BigLess(a, b) ==
  IF Len(a) # Len(b) THEN Len(a) < Len(b) ELSE BigLessFrom(a, b, Len(a))

RECURSIVE BitsOfLimb(_)
BitsOfLimb(x) == IF x = 0 THEN 0 ELSE 1 + BitsOfLimb(x \div 2)

BitLength(a) ==
  IF a = <<>> THEN 0 ELSE (Len(a) - 1) * LimbBits + BitsOfLimb(a[Len(a)])

IsOdd(a) == a # <<>> /\ a[1] % 2 = 1

\* floor(a / 2^k), and whether a bit that is set was shifted out
BigShiftRight(a, k) ==
  LET w == k \div LimbBits
      d == BigDivInt(SubSeq(a, w + 1, Len(a)), Pow2(k % LimbBits))
  IN [q |-> d.q,
      sticky |-> d.r # 0 \/ \E i \in 1..w : Limb(a, i) # 0]

\* a * 2^k
BigShiftLeft(a, k) ==
  BigShiftLimbs(BigTimesInt(a, Pow2(k % LimbBits)), k \div LimbBits)

\* the nearest number with at most 53 significant bits, ties to even
RoundToNearestEven(a) ==
  The({ IF k <= 0 THEN a
        ELSE The({
               The({ BigShiftLeft(IF IsOdd(s.q) /\ (s.sticky \/ IsOdd(q))
                                  THEN BigAdd(q, <<1>>) ELSE q, k)
                     : q \in {BigShiftRight(s.q, 1).q} })
               : s \in {BigShiftRight(a, k - 1)} })
        : k \in {BitLength(a) - MantissaBits} })

\* the Number n, a natural number
Float64OfInt(n) == BigShiftLeft(BigOfInt(n), FractionBits)

\* x + y
Float64Plus(x, y) == RoundToNearestEven(BigAdd(x, y))

\* x * y, for x and y at least 1
Float64Times(x, y) ==
  BigShiftRight(RoundToNearestEven(BigTimes(x, y)), FractionBits).q

\* x / n for a natural number n, the quotient being 0 or at least 1: the
\* quotient is taken with guard bits, a remainder sets the last of them
Float64DivInt(x, n) ==
  The({ BigShiftRight(
          RoundToNearestEven(IF d.r = 0 \/ IsOdd(d.q) THEN d.q
                             ELSE BigAdd(d.q, <<1>>)),
          GuardBits).q
        : d \in {BigDivInt(BigShiftLeft(x, GuardBits), n)} })

\* Math.min(x, y)
Float64Min(x, y) == IF BigLess(y, x) THEN y ELSE x

\* a multiplier literal of the catalog, written in tenths: 1.3 is the
\* binary64 value nearest to 13 / 10
Float64OfTenths(m) == Float64DivInt(Float64OfInt(m), 10)

\* enhancedRisk *= config.multiplier for the enhancers of the set matching,
\* from enhancer e on
RECURSIVE Float64EnhancedFrom(_, _, _)
Float64EnhancedFrom(x, matching, e) ==
  IF e > Len(contextEnhancers) THEN x
  ELSE Float64EnhancedFrom(
         IF e \in matching
         THEN Float64Times(x, Float64OfTenths(contextEnhancers[e][2].multiplier))
         ELSE x,
         matching, e + 1)

\* the same product in exact thousandths
RECURSIVE ExactEnhancedFrom(_, _, _)
ExactEnhancedFrom(x, matching, e) ==
  IF e > Len(contextEnhancers) THEN x
  ELSE ExactEnhancedFrom(
         IF e \in matching
         THEN (x * contextEnhancers[e][2].multiplier) \div 10 ELSE x,
         matching, e + 1)

\* the riskScore values of the catalog, as whole numbers
CatalogScores ==
  { entries[c][2].riskScore \div RiskUnit :
      <<entries, c>> \in
        { ec \in {predatoryPatterns, personalInfoPatterns, offPlatformPatterns}
                   \X (1..4) : ec[2] <= Len(ec[1]) } }

\* overallRisk as detectThreats computed it: where the result holds the
\* exact value risk, the code holds Math.min(10, maxRisk * multipliers) with
\* every *= rounded; the catalog score and the matching enhancers are those
\* that give the value risk
Float64OfRisk(risk) ==
  IF risk = 0 THEN Float64OfInt(0)
  ELSE The({ Float64Min(Float64OfInt(10),
                        Float64EnhancedFrom(Float64OfInt(c[1]), c[2], 1))
             : c \in { CHOOSE bm \in CatalogScores
                                       \X SUBSET (1..Len(contextEnhancers)) :
                         MathMin(Risk(10),
                                 ExactEnhancedFrom(Risk(bm[1]), bm[2], 1))
                           = risk } })

NoTally == << >>

\* stats.threatTypes[type] = 1
IncrementTallyReset(threatTypes, type) ==
  IF type \in DOMAIN threatTypes
  THEN [threatTypes EXCEPT ![type] = 1]
  ELSE threatTypes @@ (type :> 1)

\* stats.threatTypes[threat.type] = (stats.threatTypes[threat.type] || 0) + 1
IncrementTally(threatTypes, type) ==
  IF type \in DOMAIN threatTypes
  THEN [threatTypes EXCEPT ![type] = @ + 1]
  ELSE threatTypes @@ (type :> 1)

\* analysis.analysis.threats.forEach(threat => ...), from threat j on
RECURSIVE tallyThreatsFrom(_, _, _)
tallyThreatsFrom(threats, threatTypes, j) ==
  IF j > Len(threats) THEN threatTypes
  ELSE tallyThreatsFrom(threats,
                        IncrementTally(threatTypes, threats[j].type), j + 1)

IsHighRiskStrict(overallRisk) == overallRisk > Risk(7)

\* analysis.analysis.overallRisk >= 7
IsHighRisk(overallRisk) == overallRisk >= Risk(7)

\* totalRisk = analysis.analysis.overallRisk
visitAnalysisOverwrite(acc, analysis) ==
  IF Len(analysis.analysis.threats) > 0
  THEN [acc EXCEPT
          !.threatsDetected = @ + 1,
          !.totalRisk = Float64OfRisk(analysis.analysis.overallRisk),
          !.highRiskMessages =
             IF IsHighRisk(analysis.analysis.overallRisk) THEN @ + 1 ELSE @,
          !.threatTypes = tallyThreatsFrom(analysis.analysis.threats, @, 1)]
  ELSE acc

\* the body of analyses.forEach for one entry: acc holds stats and totalRisk
visitAnalysis(acc, analysis) ==
  IF Len(analysis.analysis.threats) > 0
  THEN [acc EXCEPT
          !.threatsDetected = @ + 1,
          !.totalRisk =
             The({ Float64Plus(@, risk)
                   : risk \in {Float64OfRisk(analysis.analysis.overallRisk)} }),
          !.highRiskMessages =
             IF IsHighRisk(analysis.analysis.overallRisk) THEN @ + 1 ELSE @,
          !.threatTypes = tallyThreatsFrom(analysis.analysis.threats, @, 1)]
  ELSE acc

RECURSIVE forEachAnalysisFrom(_, _, _)
forEachAnalysisFrom(analyses, acc, i) ==
  IF i > Len(analyses) THEN acc
  ELSE The({ forEachAnalysisFrom(analyses, visited, i + 1)
             : visited \in {visitAnalysis(acc, analyses[i])} })

averageRiskOverAll(acc) ==
  IF acc.totalMessages > 0
  THEN Float64DivInt(acc.totalRisk, acc.totalMessages) ELSE Float64OfInt(0)

\* stats.threatsDetected > 0 ? totalRisk / stats.threatsDetected : 0
averageRiskOf(acc) ==
  IF acc.threatsDetected > 0
  THEN Float64DivInt(acc.totalRisk, acc.threatsDetected) ELSE Float64OfInt(0)

\* getThreatStatistics(analyses)
getThreatStatistics(analyses) ==
  The({ [totalMessages |-> acc.totalMessages,
         threatsDetected |-> acc.threatsDetected,
         highRiskMessages |-> acc.highRiskMessages,
         threatTypes |-> acc.threatTypes,
         averageRisk |-> averageRiskOf(acc)]
        : acc \in {forEachAnalysisFrom(
                     analyses,
                     [totalMessages |-> Len(analyses),
                      threatsDetected |-> 0,
                      highRiskMessages |-> 0,
                      threatTypes |-> NoTally,
                      totalRisk |-> Float64OfInt(0)],
                     1)} })

(***************************************************************************)
(* The inputs the service is called with.                                  *)
(***************************************************************************)
Fragments ==
  << "hi",
     "where do you live?",
     "don't tell your parents",
     "I live near you",
     "i'm 25",
     "hurry",
     "let's move to",
     "i'll buy you" >>

\* the texts made of at most n fragments, joined by a blank
RECURSIVE Texts(_)
Texts(n) ==
  IF n = 0 THEN {""}
  ELSE Texts(n - 1) \cup
       {Fragments[k] : k \in 1..Len(Fragments)} \cup
       {t \o " " \o Fragments[k] : t \in Texts(n - 1) \ {""}, k \in 1..Len(Fragments)}

\* values that are not text: undefined, null, a number, an object, an array
Malformed ==
  {Undefined, Null, Num(5), Num(0), Obj(Undefined, Undefined), Arr}

\* the worked examples of the documentation that the fragments do not give
ExampleTexts ==
  {"let's meet up, I live near you",
   "This is our secret, don't tell your parents"}

Messages ==
  {Str(t) : t \in Texts(MaxFragments) \cup ExampleTexts} \cup Malformed

\* context objects, as sets of <<property, value>>
EmptyContext == {}
AgesContext == {<<"senderAge", 35>>, <<"recipientAge", 10>>}
Contexts == {EmptyContext, AgesContext}

\* entries of a batch: texts, message objects, malformed entries
BatchEntries ==
  {Str("hi"), Str("i'll buy you hurry"), Str(""),
   Obj(Str("I live near you"), Num(7)), Obj(Str("hi"), Undefined),
   Obj(Undefined, Undefined), Null, Undefined}

RECURSIVE SeqsUpTo(_, _)
SeqsUpTo(S, n) ==
  IF n = 0 THEN {<<>>}
  ELSE SeqsUpTo(S, n - 1) \cup
       {Append(q, x) : q \in {r \in SeqsUpTo(S, n - 1) : Len(r) = n - 1}, x \in S}

Batches == SeqsUpTo(BatchEntries, MaxBatch)

\* texts handed to applyContextEnhancers directly: age, secrecy and urgency
\* phrases, two of them of the same enhancer
EnhancerFragments ==
  << "i'm 25", "keep it secret between us", "don't tell", "hurry" >>

RECURSIVE EnhancerTexts(_)
EnhancerTexts(n) ==
  IF n = 0 THEN {""}
  ELSE EnhancerTexts(n - 1) \cup
       {EnhancerFragments[k] : k \in 1..Len(EnhancerFragments)} \cup
       {t \o " " \o EnhancerFragments[k] :
          t \in EnhancerTexts(n - 1) \ {""}, k \in 1..Len(EnhancerFragments)}

EnhancerMessages == {Str(t) : t \in EnhancerTexts(MaxFragments)}

\* base risks handed to applyContextEnhancers directly: whole points
BaseRisks == {Risk(k) : k \in 0..10}

\* risk scores handed to generateRecommendations: a grid of half points and
\* the values just below each threshold
RiskScores ==
  {k * (RiskUnit \div 2) : k \in 0..MaxRiskSteps} \cup
  {Risk(3) - 1, Risk(5) - 1, Risk(7) - 1, Risk(9) - 1}

\* the threat record an analyze method builds for entry c of a group
ThreatOf(type, entries, c, matches) ==
  [type |-> type,
   category |-> entries[c][1],
   riskScore |-> entries[c][2].riskScore,
   confidence |-> entries[c][2].confidence,
   matches |-> matches,
   description |-> DescriptionOf(type, entries[c][1])]

ThreatPool ==
  { ThreatOf("predatory_language", predatoryPatterns, 1,
             << [text |-> "you're special", pattern |-> "you're special", index |-> 0] >>),
    ThreatOf("personal_info_request", personalInfoPatterns, 1,
             << [text |-> "Where do you live", pattern |-> "where do you live", index |-> 4] >>),
    ThreatOf("off_platform_pressure", offPlatformPatterns, 1,
             << [text |-> "my discord is", pattern |-> "my discord is", index |-> 0] >>),
    ThreatOf("off_platform_pressure", offPlatformPatterns, 3,
             << [text |-> "meet me at", pattern |-> "meet me at", index |-> 2] >>) }

ThreatLists == SeqsUpTo(ThreatPool, MaxThreats)

(***************************************************************************)
(* State: the lastIndex of every regex object of the instance, the call in *)
(* progress (operation, arguments, completion, inspected locals) and, as   *)
(* history, the completion of the first call made with each input and      *)
(* whether the call in progress repeats an earlier input.                  *)
(***************************************************************************)
VARIABLES lastIndex, pc, op, args, ret, locals, memo, again

(***************************************************************************)
(* SocketHandler.  sockets is io.sockets.sockets, the sockets the server    *)
(* holds open, each with the id and the user the authentication middleware *)
(* attached; issued counts the socket ids given out, one per connection;   *)
(* connectedUsers and familyRooms are the two maps of the handler; handled *)
(* is the event handled last, with the result of notifyUser.               *)
(***************************************************************************)
VARIABLES sockets, issued, connectedUsers, familyRooms, handled

handlerVars == <<sockets, issued, connectedUsers, familyRooms, handled>>

(***************************************************************************)
(* DatabaseConfig.  retryCount and isConnected are its fields; connecting  *)
(* counts the calls of connect() that await their outcome, timers the      *)
(* pending setTimeout callbacks, listeners the 'disconnected' listeners    *)
(* registered on mongoose.connection; exited holds after process.exit;     *)
(* useMemoryDB is the environment's choice of the in-memory database;      *)
(* databaseEvent is what happened last and failures the number of failed   *)
(* attempts since the last success or 'reconnected' event.                 *)
(***************************************************************************)
VARIABLES retryCount, isConnected, connecting, timers, listeners, exited,
          useMemoryDB, databaseEvent, failures

databaseVars == <<retryCount, isConnected, connecting, timers, listeners,
                  exited, useMemoryDB, databaseEvent, failures>>

vars == <<lastIndex, pc, op, args, ret, locals, memo, again, handlerVars,
          databaseVars>>

(***************************************************************************)
(* SocketHandler: the users, the maps and the handlers.                    *)
(***************************************************************************)
UserIds == {"u1", "u2", "u3"}

\* socket.user.familyId of the user documents
FamilyIdOf == [u \in UserIds |-> IF u = "u3" THEN "f2" ELSE "f1"]

FamilyIds == {FamilyIdOf[u] : u \in UserIds}

Socket(id, userId) ==
  [id |-> id, user |-> [_id |-> userId, familyId |-> FamilyIdOf[userId]]]

\* new Map()
NewMap == [k \in {} |-> 0]

\* map.has(key), map.set(key, value), map.delete(key)
MapHas(map, key) == key \in DOMAIN map
MapSet(map, key, value) ==
  [k \in DOMAIN map \cup {key} |-> IF k = key THEN value ELSE map[k]]
MapDelete(map, key) == [k \in DOMAIN map \ {key} |-> map[k]]

\* this.connectedUsers.set(userId, socket.id); the family's set is created
\* when missing and socket.id is added to it
handleConnection(this, socket) ==
  LET userId == socket.user._id
      familyId == socket.user.familyId
      rooms == IF ~MapHas(this.familyRooms, familyId)
               THEN MapSet(this.familyRooms, familyId, {})
               ELSE this.familyRooms
  IN [connectedUsers |-> MapSet(this.connectedUsers, userId, socket.id),
      familyRooms |-> [rooms EXCEPT ![familyId] = @ \cup {socket.id}]]

\* the family's set is kept when it becomes empty
handleDisconnectionKeepsRoom(this, socket) ==
  LET userId == socket.user._id
      familyId == socket.user.familyId
  IN [connectedUsers |-> MapDelete(this.connectedUsers, userId),
      familyRooms |->
        IF MapHas(this.familyRooms, familyId)
        THEN [this.familyRooms EXCEPT ![familyId] = @ \ {socket.id}]
        ELSE this.familyRooms]

\* this.connectedUsers.delete(userId); socket.id is deleted from the family's
\* set and the family from familyRooms when its set becomes empty
handleDisconnection(this, socket) ==
  LET userId == socket.user._id
      familyId == socket.user.familyId
      rooms == IF MapHas(this.familyRooms, familyId)
               THEN [this.familyRooms EXCEPT ![familyId] = @ \ {socket.id}]
               ELSE this.familyRooms
  IN [connectedUsers |-> MapDelete(this.connectedUsers, userId),
      familyRooms |->
        IF MapHas(rooms, familyId) /\ rooms[familyId] = {}
        THEN MapDelete(rooms, familyId) ELSE rooms]

\* notifyUser(userId, event, data): whether the event was emitted, and to
\* which socket id
NoSocketId == 0
notifyUser(this, userId) ==
  IF MapHas(this.connectedUsers, userId)
  THEN [value |-> TRUE, to |-> this.connectedUsers[userId]]
  ELSE [value |-> FALSE, to |-> NoSocketId]

\* cleanup(), open being the ids in io.sockets.sockets
cleanup(this, open) ==
  [connectedUsers |->
     [u \in {k \in DOMAIN this.connectedUsers : this.connectedUsers[k] \in open}
        |-> this.connectedUsers[u]],
   familyRooms |->
     [f \in {k \in DOMAIN this.familyRooms : this.familyRooms[k] \cap open # {}}
        |-> this.familyRooms[f] \cap open]]

\* the handler constructed: two empty maps, no socket yet
InitSocketHandler ==
  /\ sockets = {}
  /\ issued = 0
  /\ connectedUsers = NewMap
  /\ familyRooms = NewMap
  /\ handled = [event |-> "none"]

(***************************************************************************)
(* DatabaseConfig.                                                         *)
(***************************************************************************)
maxRetries == 5

\* the constructor; the environment fixes USE_MEMORY_DB for the process
InitDatabase ==
  /\ retryCount = 0
  /\ isConnected = FALSE
  /\ connecting = 0
  /\ timers = 0
  /\ listeners = 0
  /\ exited = FALSE
  /\ useMemoryDB \in BOOLEAN
  /\ databaseEvent = "constructed"
  /\ failures = 0

ZeroLastIndex(entries) ==
  [c \in 1..Len(entries) |-> [k \in 1..Len(entries[c][2].patterns) |-> 0]]

\* the constructor: every regex literal is created with lastIndex 0
FreshLastIndex ==
  [predatoryPatterns |-> ZeroLastIndex(predatoryPatterns),
   personalInfoPatterns |-> ZeroLastIndex(personalInfoPatterns),
   offPlatformPatterns |-> ZeroLastIndex(offPlatformPatterns),
   contextEnhancers |-> ZeroLastIndex(contextEnhancers)]

\* the service object: the catalog the constructor built and the lastIndex of
\* its regex objects
Instance(li) ==
  [predatoryPatterns |-> predatoryPatterns,
   personalInfoPatterns |-> personalInfoPatterns,
   offPlatformPatterns |-> offPlatformPatterns,
   contextEnhancers |-> contextEnhancers,
   lastIndex |-> li]

\* texts of the batch results handed to getThreatStatistics: no threat, a
\* threat of risk 6, one of risk exactly 7, two threat types in one message,
\* two categories of one type in one message
StatisticsTexts ==
  {"hi", "let's move to", "i'll buy you",
   "you're lonely, are you allowed out? don't tell",
   "you're special, i'll buy you, hurry"}

\* the entries batchAnalyze returns for these texts
AnalysisPool ==
  { [message |-> Str(t),
     timestamp |-> DateOf(1),
     analysis |-> detectThreats(Instance(FreshLastIndex), Str(t),
                                EmptyContext).value]
    : t \in StatisticsTexts }

AnalysisLists == SeqsUpTo(AnalysisPool, MaxAnalyses)

\* the category ids each description lookup has an entry for, by the threat
\* type whose analyze method calls it
RegisteredCategories ==
  [predatory_language |->
     {"trustBuilding", "inappropriateCompliments", "giftManipulation",
      "emotionalManipulation"},
   personal_info_request |->
     {"directRequests", "indirectGathering", "mediaRequests"},
   off_platform_pressure |->
     {"discordPressure", "socialPlatforms", "meetingRequests",
      "platformSwitching"}]

\* category ids handed to the lookups: the registered ones and ids that no
\* lookup registers
CategoryIds ==
  UNION {RegisteredCategories[type] : type \in DOMAIN RegisteredCategories}
  \cup {"", "unknown", "undefined", "TrustBuilding", "constructor", "toString",
        "hasOwnProperty", "__proto__"}

\* the rules the literals of initializePatterns declare
ShippedCatalog ==
  [predatoryPatterns |-> predatoryPatterns,
   personalInfoPatterns |-> personalInfoPatterns,
   offPlatformPatterns |-> offPlatformPatterns,
   contextEnhancers |-> contextEnhancers]

\* rule sets initializePatterns can be made to declare: the shipped one and
\* the shipped one with one number of one rule changed
DeclaredCatalogs ==
  {ShippedCatalog}
  \cup {[ShippedCatalog EXCEPT !.predatoryPatterns[1][2].riskScore = Risk(11)],
        [ShippedCatalog EXCEPT !.personalInfoPatterns[2][2].riskScore = 0 - Risk(1)],
        [ShippedCatalog EXCEPT !.offPlatformPatterns[3][2].confidence = Pct(150)],
        [ShippedCatalog EXCEPT !.contextEnhancers[3][2].multiplier = 10],
        [ShippedCatalog EXCEPT !.contextEnhancers[2][2].multiplier = 5]}

\* initializePatterns: assigns the four rule sets to the instance as declared
initializePatterns(declared) ==
  [predatoryPatterns |-> declared.predatoryPatterns,
   personalInfoPatterns |-> declared.personalInfoPatterns,
   offPlatformPatterns |-> declared.offPlatformPatterns,
   contextEnhancers |-> declared.contextEnhancers,
   lastIndex |->
     [predatoryPatterns |-> ZeroLastIndex(declared.predatoryPatterns),
      personalInfoPatterns |-> ZeroLastIndex(declared.personalInfoPatterns),
      offPlatformPatterns |-> ZeroLastIndex(declared.offPlatformPatterns),
      contextEnhancers |-> ZeroLastIndex(declared.contextEnhancers)]]

\* new AlertDetectionService(): calls this.initializePatterns() and nothing
\* else
constructor(declared) ==
  [threw |-> FALSE, value |-> initializePatterns(declared)]

NoArgs == [none |-> TRUE]
NoRet == [none |-> TRUE]

Completion(r) ==
  IF r.threw THEN [threw |-> TRUE, error |-> r.error]
             ELSE [threw |-> FALSE, value |-> r.value]

\* the service constructed, no call in progress
InitService ==
  /\ lastIndex = FreshLastIndex
  /\ pc = "idle"
  /\ op = "none"
  /\ args = NoArgs
  /\ ret = NoRet
  /\ locals = NoLocals
  /\ memo = {}
  /\ again = FALSE

\* the three objects constructed, in a process that uses the configured
\* database
Init ==
  /\ InitService
  /\ InitSocketHandler
  /\ InitDatabase
  /\ useMemoryDB = FALSE

DetectThreats ==
  /\ pc = "idle"
  /\ \E message \in Messages, context \in Contexts, this \in {Instance(lastIndex)} :
       \E r \in {detectThreats(this, message, context)} :
          /\ args' = [message |-> message, context |-> context]
          /\ ret' = Completion(r)
          /\ lastIndex' = r.LI
          /\ locals' = r.locals
  /\ op' = "detectThreats"
  /\ pc' = "returned"
  /\ UNCHANGED <<memo, again, handlerVars, databaseVars>>

BatchAnalyze ==
  /\ pc = "idle"
  /\ \E messages \in Batches, now \in 1..MaxClock, this \in {Instance(lastIndex)} :
       \E r \in {batchAnalyze(this, messages, EmptyContext, now)} :
          /\ args' = [messages |-> messages, context |-> EmptyContext]
          /\ ret' = Completion(r)
          /\ lastIndex' = r.LI
  /\ locals' = NoLocals
  /\ op' = "batchAnalyze"
  /\ pc' = "returned"
  /\ UNCHANGED <<memo, again, handlerVars, databaseVars>>

GenerateRecommendations ==
  /\ pc = "idle"
  /\ \E riskScore \in RiskScores, threats \in ThreatLists :
       /\ args' = [riskScore |-> riskScore, threats |-> threats]
       /\ ret' = [threw |-> FALSE,
                  value |-> generateRecommendations(riskScore, threats)]
  /\ locals' = NoLocals
  /\ op' = "generateRecommendations"
  /\ pc' = "returned"
  /\ UNCHANGED <<lastIndex, memo, again, handlerVars, databaseVars>>

ApplyContextEnhancers ==
  /\ pc = "idle"
  /\ \E message \in EnhancerMessages, baseRisk \in BaseRisks,
        this \in {Instance(lastIndex)} :
       \E r \in {applyContextEnhancers(this, message, baseRisk)} :
          /\ args' = [message |-> message, baseRisk |-> baseRisk]
          /\ ret' = [threw |-> FALSE, value |-> r.value]
          /\ lastIndex' = [lastIndex EXCEPT !.contextEnhancers = r.li]
  /\ locals' = NoLocals
  /\ op' = "applyContextEnhancers"
  /\ pc' = "returned"
  /\ UNCHANGED <<memo, again, handlerVars, databaseVars>>

DescribeCategory ==
  /\ pc = "idle"
  /\ \E type \in DOMAIN RegisteredCategories, category \in CategoryIds :
       /\ args' = [type |-> type, category |-> category]
       /\ ret' = [threw |-> FALSE, value |-> DescriptionOf(type, category)]
  /\ locals' = NoLocals
  /\ op' = "getDescription"
  /\ pc' = "returned"
  /\ UNCHANGED <<lastIndex, memo, again, handlerVars, databaseVars>>

\* texts findPatternMatches is called with: a pattern that occurs twice, in
\* two spellings; two patterns of one category in the order opposite to the
\* pattern list; an alternation and an optional group; no pattern at all
FindTexts ==
  {"hi Where do you live? where do you live?",
   "This is our secret, don't tell your parents",
   "add me on Snapchat, my snap is x",
   "don't tell parents, don't tell your parents",
   "hi"}

CategoryGroups ==
  {"predatoryPatterns", "personalInfoPatterns", "offPlatformPatterns"}

\* findPatternMatches(message, config.patterns) on the patterns of one
\* category of the instance
FindPatternMatches ==
  /\ pc = "idle"
  /\ \E text \in FindTexts, group \in CategoryGroups,
        this \in {Instance(lastIndex)} :
       \E c \in 1..Len(this[group]) :
         \E r \in {findPatternMatches(Str(text), this[group][c][2].patterns,
                                      this.lastIndex[group][c])} :
            /\ args' = [message |-> Str(text),
                        patterns |-> this[group][c][2].patterns]
            /\ ret' = [threw |-> FALSE, value |-> r.matches]
            /\ lastIndex' = [lastIndex EXCEPT ![group][c] = r.li]
  /\ locals' = NoLocals
  /\ op' = "findPatternMatches"
  /\ pc' = "returned"
  /\ UNCHANGED <<memo, again, handlerVars, databaseVars>>

\* a service object is constructed; the instance in use is another object
Construct ==
  /\ pc = "idle"
  /\ \E declared \in DeclaredCatalogs :
       /\ args' = [declared |-> declared]
       /\ ret' = constructor(declared)
  /\ locals' = NoLocals
  /\ op' = "constructor"
  /\ pc' = "returned"
  /\ UNCHANGED <<lastIndex, memo, again, handlerVars, databaseVars>>

GetThreatStatistics ==
  /\ pc = "idle"
  /\ \E analyses \in AnalysisLists :
       /\ args' = [analyses |-> analyses]
       /\ ret' = [threw |-> FALSE, value |-> getThreatStatistics(analyses)]
  /\ locals' = NoLocals
  /\ op' = "getThreatStatistics"
  /\ pc' = "returned"
  /\ UNCHANGED <<lastIndex, memo, again, handlerVars, databaseVars>>

\* the caller takes the completion; the instance stays as the call left it
Return ==
  /\ pc = "returned"
  /\ pc' = "idle"
  /\ op' = "none"
  /\ args' = NoArgs
  /\ ret' = NoRet
  /\ locals' = NoLocals
  /\ again' = FALSE
  /\ UNCHANGED <<lastIndex, memo, handlerVars, databaseVars>>

Next ==
  \/ DetectThreats
  \/ BatchAnalyze
  \/ GenerateRecommendations
  \/ ApplyContextEnhancers
  \/ GetThreatStatistics
  \/ Construct
  \/ DescribeCategory
  \/ FindPatternMatches
  \/ Return

Spec == Init /\ [][Next]_vars

(***************************************************************************)
(* Repeated calls on one instance: detectThreats is called again and again *)
(* with inputs of a small pool, in any order, and the completion of the    *)
(* first call with each input is remembered.                               *)
(***************************************************************************)
RepeatInputs ==
  { [message |-> Str("don't tell your parents"), context |-> EmptyContext],
    [message |-> Str("dm me on discord hurry"), context |-> EmptyContext],
    [message |-> Str("where do you live? i'm 25"), context |-> AgesContext],
    [message |-> Str("where do you live? i'm 25"), context |-> EmptyContext],
    [message |-> Str("where do you live?"), context |-> AgesContext],
    [message |-> Str("where do you live?"), context |-> EmptyContext],
    [message |-> Str("hurry"), context |-> EmptyContext],
    [message |-> Str("hi"), context |-> AgesContext],
    [message |-> Null, context |-> EmptyContext] }

DetectThreatsRepeat ==
  /\ pc = "idle"
  /\ \E input \in RepeatInputs, this \in {Instance(lastIndex)} :
       \E r \in {detectThreats(this, input.message, input.context)} :
          /\ args' = input
          /\ ret' = Completion(r)
          /\ lastIndex' = r.LI
          /\ locals' = r.locals
          /\ again' = \E p \in memo : p[1] = input
          /\ memo' = IF \E p \in memo : p[1] = input
                     THEN memo ELSE memo \cup {<<input, Completion(r)>>}
  /\ op' = "detectThreats"
  /\ pc' = "returned"
  /\ UNCHANGED <<handlerVars, databaseVars>>

NextRepeat ==
  \/ DetectThreatsRepeat
  \/ Return

SpecRepeat == Init /\ [][NextRepeat]_vars

(***************************************************************************)
(* Concurrent callers of one instance.  The methods are synchronous (no     *)
(* await, no callback that yields), so a call runs to completion once it    *)
(* starts and the calls of different requests interleave call by call.  In  *)
(* this specification pc, op, args and ret hold one value per caller.       *)
(***************************************************************************)
Callers == {1, 2}

ConcurrentCalls ==
  { [op |-> "detectThreats", message |-> Str("i'll buy you hurry"),
     context |-> EmptyContext],
    [op |-> "detectThreats", message |-> Str("where do you live? i'm 25"),
     context |-> AgesContext],
    [op |-> "detectThreats", message |-> Str("don't tell your parents"),
     context |-> EmptyContext],
    [op |-> "detectThreats", message |-> Str("hi"), context |-> EmptyContext],
    [op |-> "detectThreats", message |-> Null, context |-> EmptyContext],
    [op |-> "batchAnalyze",
     messages |-> << Str("i'll buy you hurry"), Str("hi") >>,
     context |-> EmptyContext],
    [op |-> "batchAnalyze",
     messages |-> << Obj(Str("I live near you"), Num(7)),
                     Str("i'll buy you hurry") >>,
     context |-> EmptyContext],
    [op |-> "batchAnalyze", messages |-> << Str("hi"), Null >>,
     context |-> EmptyContext] }
  \cup
  { [op |-> "getThreatStatistics", analyses |-> analyses] :
      analyses \in {l \in AnalysisLists :
                      /\ Len(l) = 2
                      /\ l[1].message = Str("i'll buy you")
                      /\ l[2].message \in {Str("hi"), Str("let's move to"),
                                            Str("i'll buy you")}} }

\* one call on the instance this: its completion and the lastIndex values it
\* leaves behind
Perform(this, call) ==
  IF call.op = "detectThreats"
  THEN The({ [completion |-> Completion(r), LI |-> r.LI]
             : r \in {detectThreats(this, call.message, call.context)} })
  ELSE IF call.op = "batchAnalyze"
  THEN The({ [completion |-> Completion(r), LI |-> r.LI]
             : r \in {batchAnalyze(this, call.messages, call.context, 1)} })
  ELSE [completion |-> [threw |-> FALSE,
                        value |-> getThreatStatistics(call.analyses)],
        LI |-> this.lastIndex]

InitConcurrent ==
  /\ lastIndex = FreshLastIndex
  /\ pc = [c \in Callers |-> "idle"]
  /\ op = [c \in Callers |-> "none"]
  /\ args = [c \in Callers |-> NoArgs]
  /\ ret = [c \in Callers |-> NoRet]
  /\ locals = NoLocals
  /\ memo = {}
  /\ again = FALSE
  /\ InitSocketHandler
  /\ InitDatabase
  /\ useMemoryDB = FALSE

CallBy(c, call) ==
  /\ pc[c] = "idle"
  /\ \E r \in {Perform(Instance(lastIndex), call)} :
       /\ ret' = [ret EXCEPT ![c] = r.completion]
       /\ lastIndex' = r.LI
  /\ args' = [args EXCEPT ![c] = call]
  /\ op' = [op EXCEPT ![c] = call.op]
  /\ pc' = [pc EXCEPT ![c] = "returned"]
  /\ UNCHANGED <<locals, memo, again, handlerVars, databaseVars>>

DetectThreatsBy ==
  \E c \in Callers :
    \E call \in {x \in ConcurrentCalls : x.op = "detectThreats"} : CallBy(c, call)

BatchAnalyzeBy ==
  \E c \in Callers :
    \E call \in {x \in ConcurrentCalls : x.op = "batchAnalyze"} : CallBy(c, call)

GetThreatStatisticsBy ==
  \E c \in Callers :
    \E call \in {x \in ConcurrentCalls : x.op = "getThreatStatistics"} :
      CallBy(c, call)

\* caller c takes its completion
ReturnTo ==
  \E c \in Callers :
    /\ pc[c] = "returned"
    /\ pc' = [pc EXCEPT ![c] = "idle"]
    /\ op' = [op EXCEPT ![c] = "none"]
    /\ args' = [args EXCEPT ![c] = NoArgs]
    /\ ret' = [ret EXCEPT ![c] = NoRet]
    /\ UNCHANGED <<lastIndex, locals, memo, again, handlerVars, databaseVars>>

NextConcurrent ==
  \/ DetectThreatsBy
  \/ BatchAnalyzeBy
  \/ GetThreatStatisticsBy
  \/ ReturnTo

SpecConcurrent == InitConcurrent /\ [][NextConcurrent]_vars

(***************************************************************************)
(* The socket events.  A socket reaches the handlers after the             *)
(* authentication middleware attached its user; socket.io gives every      *)
(* connection a new id, adds the socket to io.sockets.sockets before the   *)
(* 'connection' event and removes it before the 'disconnect' event.  The   *)
(* handlers run to completion, one event at a time.                        *)
(***************************************************************************)
MaxSockets == 3

ThisHandler == [connectedUsers |-> connectedUsers, familyRooms |-> familyRooms]

serviceVars == <<lastIndex, pc, op, args, ret, locals, memo, again>>

\* io.on('connection', socket => this.handleConnection(socket))
Connection ==
  /\ issued < MaxSockets
  /\ \E userId \in UserIds :
       \E socket \in {Socket(issued + 1, userId)} :
         \E this \in {handleConnection(ThisHandler, socket)} :
            /\ sockets' = sockets \cup {socket}
            /\ connectedUsers' = this.connectedUsers
            /\ familyRooms' = this.familyRooms
            /\ handled' = [event |-> "connection", socket |-> socket.id]
  /\ issued' = issued + 1
  /\ UNCHANGED <<serviceVars, databaseVars>>

\* socket.on('disconnect', () => this.handleDisconnection(socket))
Disconnect ==
  /\ \E socket \in sockets :
       \E this \in {handleDisconnection(ThisHandler, socket)} :
          /\ sockets' = sockets \ {socket}
          /\ connectedUsers' = this.connectedUsers
          /\ familyRooms' = this.familyRooms
          /\ handled' = [event |-> "disconnect", socket |-> socket.id]
  /\ UNCHANGED <<issued, serviceVars, databaseVars>>

\* cleanup()
Cleanup ==
  /\ \E this \in {cleanup(ThisHandler, {socket.id : socket \in sockets})} :
       /\ connectedUsers' = this.connectedUsers
       /\ familyRooms' = this.familyRooms
  /\ handled' = [event |-> "cleanup"]
  /\ UNCHANGED <<sockets, issued, serviceVars, databaseVars>>

\* notifyUser(userId, event, data)
NotifyUser ==
  /\ \E userId \in UserIds :
       handled' = [event |-> "notifyUser", userId |-> userId,
                   result |-> notifyUser(ThisHandler, userId)]
  /\ UNCHANGED <<sockets, issued, connectedUsers, familyRooms, serviceVars,
                 databaseVars>>

NextSocket ==
  \/ Connection
  \/ Disconnect
  \/ Cleanup
  \/ NotifyUser

SpecSocket == Init /\ [][NextSocket]_vars

(***************************************************************************)
(* The database connection.  connect() awaits mongoose.connect (or the     *)
(* in-memory server); its continuation, the timer callbacks and the        *)
(* mongoose event listeners each run to completion.  Every successful      *)
(* connect() on the configured database calls setupEventListeners() and so *)
(* registers one more 'disconnected' listener.                             *)
(***************************************************************************)
MaxListeners == 2
MaxPending == 3

InitDatabaseProcess ==
  /\ InitService
  /\ InitSocketHandler
  /\ InitDatabase

\* the application calls connect() at startup
Connect ==
  /\ databaseEvent = "constructed"
  /\ connecting' = connecting + 1
  /\ databaseEvent' = "connect"
  /\ UNCHANGED <<retryCount, isConnected, timers, listeners, exited,
                 useMemoryDB, failures, serviceVars, handlerVars>>

\* the awaited connection is made: on the in-memory path connect() returns
\* after connectToMemoryDB set isConnected; on the configured path it sets
\* isConnected, resets retryCount and calls setupEventListeners
ConnectSucceeds ==
  /\ ~exited
  /\ connecting > 0
  /\ useMemoryDB \/ listeners < MaxListeners
  /\ connecting' = connecting - 1
  /\ isConnected' = TRUE
  /\ retryCount' = IF useMemoryDB THEN retryCount ELSE 0
  /\ listeners' = IF useMemoryDB THEN listeners ELSE listeners + 1
  /\ databaseEvent' = "connected"
  /\ failures' = 0
  /\ UNCHANGED <<timers, exited, useMemoryDB, serviceVars, handlerVars>>

\* the catch block: another attempt is scheduled while retryCount is below
\* maxRetries, otherwise the process exits
ConnectFails ==
  /\ ~exited
  /\ connecting > 0
  /\ connecting' = connecting - 1
  /\ IF retryCount < maxRetries
     THEN /\ retryCount' = retryCount + 1
          /\ timers' = timers + 1
          /\ exited' = FALSE
          /\ databaseEvent' = "failed"
     ELSE /\ exited' = TRUE
          /\ databaseEvent' = "exit"
          /\ UNCHANGED <<retryCount, timers>>
  /\ failures' = failures + 1
  /\ UNCHANGED <<isConnected, listeners, useMemoryDB, serviceVars, handlerVars>>

\* setTimeout(() => { this.connect(); }, this.retryDelay) comes due
TimerFires ==
  /\ ~exited
  /\ timers > 0
  /\ timers' = timers - 1
  /\ connecting' = connecting + 1
  /\ databaseEvent' = "timer"
  /\ UNCHANGED <<retryCount, isConnected, listeners, exited, useMemoryDB,
                 failures, serviceVars, handlerVars>>

\* db.on('disconnected', ...): every registered listener runs
Disconnected ==
  /\ ~exited
  /\ listeners > 0
  /\ connecting + timers + listeners <= MaxPending
  /\ isConnected' = FALSE
  /\ timers' = IF retryCount < maxRetries THEN timers + listeners ELSE timers
  /\ databaseEvent' = "disconnected"
  /\ UNCHANGED <<retryCount, connecting, listeners, exited, useMemoryDB,
                 failures, serviceVars, handlerVars>>

\* db.on('reconnected', ...)
Reconnected ==
  /\ ~exited
  /\ listeners > 0
  /\ isConnected' = TRUE
  /\ retryCount' = 0
  /\ databaseEvent' = "reconnected"
  /\ failures' = 0
  /\ UNCHANGED <<connecting, timers, listeners, exited, useMemoryDB,
                 serviceVars, handlerVars>>

NextDatabase ==
  \/ Connect
  \/ ConnectSucceeds
  \/ ConnectFails
  \/ TimerFires
  \/ Disconnected
  \/ Reconnected

SpecDatabase == InitDatabaseProcess /\ [][NextDatabase]_vars

(***************************************************************************)
(* Notions the properties are stated with, computed from the catalog and   *)
(* the text alone, not from the result of a call.                          *)
(***************************************************************************)
DetectReturned == pc = "returned" /\ op = "detectThreats"
DetectValue == DetectReturned /\ ~ret.threw
BatchReturned == pc = "returned" /\ op = "batchAnalyze"
RecommendReturned == pc = "returned" /\ op = "generateRecommendations"

\* the regex R matches somewhere in the string S
Occurs(R, S) == \E i \in 1..Len(S.folded) : AltAt(R, S.folded, i) # 0

Groups ==
  << [type |-> "predatory_language", entries |-> predatoryPatterns],
     [type |-> "personal_info_request", entries |-> personalInfoPatterns],
     [type |-> "off_platform_pressure", entries |-> offPlatformPatterns] >>

\* the categories of which some pattern matches S, with their static scores
HitCategories(S) ==
  { [type |-> Groups[g].type,
     category |-> Groups[g].entries[c][1],
     riskScore |-> Groups[g].entries[c][2].riskScore,
     confidence |-> Groups[g].entries[c][2].confidence] :
    <<g, c>> \in
      { gc \in (1..Len(Groups)) \X (1..4) :
          /\ gc[2] <= Len(Groups[gc[1]].entries)
          /\ \E k \in 1..Len(Groups[gc[1]].entries[gc[2]][2].patterns) :
               Occurs(Groups[gc[1]].entries[gc[2]][2].patterns[k], S) } }

\* the context enhancers of which some pattern matches S
MatchingEnhancers(S) ==
  { contextEnhancers[e][1] : e \in
      { x \in 1..Len(contextEnhancers) :
          \E k \in 1..Len(contextEnhancers[x][2].patterns) :
            Occurs(contextEnhancers[x][2].patterns[k], S) } }

SetMax(S) == CHOOSE x \in S : \A y \in S : y <= x

RECURSIVE SumOver(_, _)
SumOver(S, f) ==
  IF S = {} THEN 0
  ELSE LET x == CHOOSE y \in S : TRUE IN f[x] + SumOver(S \ {x}, f)

EnhanceReturned == pc = "returned" /\ op = "applyContextEnhancers"

\* whether some pattern of enhancer e matches S
EnhancerMatches(e, S) ==
  \E k \in 1..Len(contextEnhancers[e][2].patterns) :
    Occurs(contextEnhancers[e][2].patterns[k], S)

\* the factor enhancer e contributes for S, in tenths: its multiplier when it
\* matches, 1.0 when it does not
FactorOf(e, S) ==
  IF EnhancerMatches(e, S) THEN contextEnhancers[e][2].multiplier ELSE 10

RECURSIVE ProductOfFactors(_, _)
ProductOfFactors(e, S) ==
  IF e = 0 THEN 1 ELSE FactorOf(e, S) * ProductOfFactors(e - 1, S)

RECURSIVE PowerOfTen(_)
PowerOfTen(n) == IF n = 0 THEN 1 ELSE 10 * PowerOfTen(n - 1)

\* the enumeration orders of the enhancer rules
EnhancerOrders == Permutations(1..Len(contextEnhancers))

\* base risk enhanced with the rules enumerated in the order p
EnhancedInOrder(p, S, baseRisk) ==
  applyContextEnhancersFrom(
    [i \in 1..Len(contextEnhancers) |-> contextEnhancers[p[i]]],
    S, baseRisk,
    [i \in 1..Len(contextEnhancers) |-> FreshLastIndex.contextEnhancers[p[i]]],
    1).value

\* the highest riskScore among the threats of a result
BaseRiskOf(threats) ==
  SetMax({threats[i].riskScore : i \in 1..Len(threats)})

\* the threats of a list that belong to a category of a type
ThreatsOf(threats, type, category) ==
  SelectSeq(threats, LAMBDA t : t.type = type /\ t.category = category)

StatsReturned == pc = "returned" /\ op = "getThreatStatistics"

\* the positions of the entries that have at least one threat
Threatened(analyses) ==
  {i \in 1..Len(analyses) : analyses[i].analysis.threats # <<>>}

ThreatTypes ==
  {"predatory_language", "personal_info_request", "off_platform_pressure"}

\* the number of threats of a type in a list of threats
ThreatsOfType(threats, T) ==
  Cardinality({j \in 1..Len(threats) : threats[j].type = T})

\* the tally of a type, 0 when it has no key
TallyOf(threatTypes, T) ==
  IF T \in DOMAIN threatTypes THEN threatTypes[T] ELSE 0

ConstructReturned == pc = "returned" /\ op = "constructor"

\* some rule of a group has a riskScore outside [0, 10] or a confidence
\* outside [0, 1]
MalformedGroup(entries) ==
  \E c \in 1..Len(entries) :
    \/ entries[c][2].riskScore < 0 \/ entries[c][2].riskScore > Risk(10)
    \/ entries[c][2].confidence < 0 \/ entries[c][2].confidence > Pct(100)

\* some declared rule is malformed: a score or confidence out of range, an
\* enhancer multiplier of 1.0 or less
MalformedCatalog(declared) ==
  \/ MalformedGroup(declared.predatoryPatterns)
  \/ MalformedGroup(declared.personalInfoPatterns)
  \/ MalformedGroup(declared.offPlatformPatterns)
  \/ \E e \in 1..Len(declared.contextEnhancers) :
       declared.contextEnhancers[e][2].multiplier <= 10

DescribeReturned == pc = "returned" /\ op = "getDescription"

\* the generic string of each lookup
FallbackOf(type) ==
  CASE type = "predatory_language" -> Text("Predatory language detected")
    [] type = "personal_info_request" ->
         Text("Personal information request detected")
    [] type = "off_platform_pressure" -> Text("Off-platform pressure detected")

TierActions == {"IMMEDIATE_INTERVENTION", "ALERT_PARENTS", "WARNING", "MONITOR"}
IsTier(rec) == rec.action \in TierActions
IsPlatformEducation(rec) == rec.action = "PLATFORM_EDUCATION"
IsPrivacyEducation(rec) == rec.action = "PRIVACY_EDUCATION"

\* the <<priority, action>> the tier table gives for a risk, none below 3
TierTable(risk) ==
  IF risk >= Risk(9) THEN << <<"CRITICAL", "IMMEDIATE_INTERVENTION">> >>
  ELSE IF risk >= Risk(7) THEN << <<"HIGH", "ALERT_PARENTS">> >>
  ELSE IF risk >= Risk(5) THEN << <<"MEDIUM", "WARNING">> >>
  ELSE IF risk >= Risk(3) THEN << <<"LOW", "MONITOR">> >>
  ELSE << >>

TiersOf(recs) ==
  LET tiers == SelectSeq(recs, IsTier)
  IN [i \in 1..Len(tiers) |-> <<tiers[i].priority, tiers[i].action>>]

\* a batch entry that carries no text: null, undefined, a non-textual value,
\* an object whose text is missing or empty
MalformedEntry(e) ==
  ~(IsString(e) \/ (e.t = "object" /\ IsString(e.text) /\ e.text.s # ""))

TextOfEntry(e) == IF IsString(e) THEN e ELSE e.text

\* what detectThreats returns for a text when it is called with that text
\* alone on a newly constructed instance
AloneAnalysis(text) ==
  Completion(detectThreats(Instance(FreshLastIndex), text, EmptyContext))

\* the completion of a call when it runs alone on a newly constructed
\* instance
AloneCompletion(call) == Perform(Instance(FreshLastIndex), call).completion

(***************************************************************************)
(* Properties.                                                             *)
(***************************************************************************)

\* C1: every overallRisk returned by detectThreats lies in [0, 10], also when
\* the multipliers of the matching enhancers take the base risk above 10.
C1_RiskWithinBounds ==
  DetectValue =>
    /\ 0 <= ret.value.overallRisk
    /\ ret.value.overallRisk <= Risk(10)

C1_Witness ==
  /\ DetectValue
  /\ locals.enhancedRisk > Risk(10)
  /\ ret.value.overallRisk = Risk(10)

\* C2: in every result of detectThreats, threats is empty if and only if
\* overallRisk is 0.
C2_EmptyIffZeroRisk ==
  DetectValue => (ret.value.threats = <<>> <=> ret.value.overallRisk = 0)

C2_Witness ==
  /\ DetectValue
  /\ ret.value.threats # <<>>
  /\ ret.value.overallRisk > 0

\* C3: a text that hits no category gets overallRisk 0, confidence 0, no
\* threats and no recommendations, also when context enhancers match it.
C3_NoHitNoRisk ==
  (DetectReturned /\ IsString(args.message)
     /\ HitCategories(args.message) = {})
  => ret = [threw |-> FALSE, value |-> EmptyResults]

C3_Witness ==
  /\ DetectValue
  /\ IsString(args.message)
  /\ HitCategories(args.message) = {}
  /\ Cardinality(MatchingEnhancers(args.message)) >= 2
  /\ ret.value = EmptyResults

\* C4: detectThreats never raises for a message that is missing, null or not
\* a string: it returns overallRisk 0 and no threats.
C4_NeverRaisesOnMalformed ==
  (DetectReturned /\ ~IsString(args.message))
  => (~ret.threw /\ ret.value.overallRisk = 0 /\ ret.value.threats = <<>>)

\* C5: batchAnalyze never aborts: it returns one entry per input entry, in
\* order, and a malformed entry gets a zero-risk analysis without threats.
C5_BatchOneToOne ==
  BatchReturned =>
    /\ ~ret.threw
    /\ Len(ret.value) = Len(args.messages)
    /\ \A i \in 1..Len(args.messages) :
         IF MalformedEntry(args.messages[i])
         THEN /\ ret.value[i].analysis.overallRisk = 0
              /\ ret.value[i].analysis.threats = <<>>
         ELSE ret.value[i].message = TextOfEntry(args.messages[i])

\* C6: a call of detectThreats completes exactly as the first call made with
\* the same message and context on this instance did, whatever calls were
\* made in between.
C6_SameInputSameResult ==
  DetectReturned => \A p \in memo : p[1] = args => p[2] = ret

C6_Witness ==
  /\ DetectValue
  /\ again
  /\ Cardinality(memo) >= 3
  /\ locals.enhancedRisk > locals.maxRisk

\* C7: the recommendations hold at most one tier recommendation, the one the
\* table gives for the risk score: CRITICAL / IMMEDIATE_INTERVENTION from 9,
\* HIGH / ALERT_PARENTS in [7, 9), MEDIUM / WARNING in [5, 7), LOW / MONITOR
\* in [3, 5), none below 3; detectThreats hands over its clamped overallRisk.
C7_TierFollowsTable ==
  /\ RecommendReturned => TiersOf(ret.value) = TierTable(args.riskScore)
  /\ DetectValue =>
       TiersOf(ret.value.recommendations) = TierTable(ret.value.overallRisk)

C7_Witness ==
  /\ RecommendReturned
  /\ args.riskScore = Risk(7)
  /\ TiersOf(ret.value) = << <<"HIGH", "ALERT_PARENTS">> >>

\* C8: generateRecommendations adds PLATFORM_EDUCATION exactly when a threat
\* has type off_platform_pressure and PRIVACY_EDUCATION exactly when a threat
\* has type personal_info_request, each once, after the tier recommendation
\* and whatever the tier.
C8_EducationByThreatType ==
  RecommendReturned =>
    LET recs == ret.value
        types == {args.threats[i].type : i \in 1..Len(args.threats)}
    IN /\ Len(SelectSeq(recs, IsPlatformEducation)) =
            (IF "off_platform_pressure" \in types THEN 1 ELSE 0)
       /\ Len(SelectSeq(recs, IsPrivacyEducation)) =
            (IF "personal_info_request" \in types THEN 1 ELSE 0)
       /\ \A i \in 2..Len(recs) : ~IsTier(recs[i])
       /\ \A i \in 1..Len(recs) :
            IsTier(recs[i]) \/ IsPlatformEducation(recs[i])
              \/ IsPrivacyEducation(recs[i])

C8_Witness ==
  /\ RecommendReturned
  /\ args.riskScore < Risk(3)
  /\ Len(args.threats) = 2
  /\ args.threats[1].type = "off_platform_pressure"
  /\ args.threats[2].type = "off_platform_pressure"
  /\ Len(ret.value) = 1

\* C9: the risk before enhancement is the greatest riskScore among the hit
\* categories, not their sum or mean.
C9_BaseRiskIsMax ==
  DetectValue =>
    The({ hits # {} => locals.maxRisk = SetMax({h.riskScore : h \in hits})
          : hits \in {HitCategories(args.message)} })

C9_Witness ==
  /\ DetectValue
  /\ \E h1, h2 \in HitCategories(args.message) : h1.riskScore < h2.riskScore
  /\ locals.maxRisk = SetMax({h.riskScore : h \in HitCategories(args.message)})

\* C10: the confidence is the arithmetic mean of the static confidences of
\* the hit categories, one term per category, and lies in [0, 1].
C10_ConfidenceIsMean ==
  DetectValue =>
    The({ hits # {} =>
            /\ ret.value.confidence * Cardinality(hits) =
                 SumOver(hits, [h \in hits |-> h.confidence])
            /\ 0 <= ret.value.confidence
            /\ ret.value.confidence <= Pct(100)
          : hits \in {HitCategories(args.message)} })

C10_Witness ==
  /\ DetectValue
  /\ \E h1, h2 \in HitCategories(args.message) : h1.confidence < h2.confidence
  /\ MatchingEnhancers(args.message) # {}
  /\ ret.value.confidence > 0

C12_EnhancementNeverLowers ==
  (DetectValue /\ ret.value.threats # <<>>) =>
    The({ /\ ret.value.overallRisk >= base
          /\ (ret.value.overallRisk > base
                => /\ base < Risk(10)
                   /\ MatchingEnhancers(args.message) # {})
          : base \in {BaseRiskOf(ret.value.threats)} })

C12_Witness ==
  /\ DetectValue
  /\ ret.value.threats # <<>>
  /\ MatchingEnhancers(args.message) = {"urgency"}
  /\ BaseRiskOf(ret.value.threats) = Risk(7)
  /\ ret.value.overallRisk = 8400

\* C13: for "where do you live? don't tell your parents" detectThreats reports
\* the personal-info category directRequests (risk 9) and the predatory
\* category trustBuilding (risk 8), only the secrecy enhancer applies, and
\* overallRisk is min(10, 9 x 1.3) = 10.
C13_SecrecyExample ==
  (DetectReturned
     /\ args.message = Str("where do you live? don't tell your parents"))
  => /\ ~ret.threw
     /\ Len(ThreatsOf(ret.value.threats, "personal_info_request",
                      "directRequests")) = 1
     /\ ThreatsOf(ret.value.threats, "personal_info_request",
                  "directRequests")[1].riskScore = Risk(9)
     /\ Len(ThreatsOf(ret.value.threats, "predatory_language",
                      "trustBuilding")) = 1
     /\ ThreatsOf(ret.value.threats, "predatory_language",
                  "trustBuilding")[1].riskScore = Risk(8)
     /\ MatchingEnhancers(args.message) = {"secrecy"}
     /\ locals.enhancedRisk = Times(Risk(9), 13)
     /\ locals.enhancedRisk = 11700
     /\ ret.value.overallRisk = Risk(10)

C13_Witness ==
  /\ DetectValue
  /\ args.message = Str("where do you live? don't tell your parents")
  /\ Len(ret.value.threats) = 2
  /\ ret.value.overallRisk = Risk(10)

\* C14: for "let's meet up, I live near you" detectThreats hits the category
\* meetingRequests (risk 10, confidence 0.95), no context enhancer matches,
\* overallRisk is 10 and the recommendations hold a CRITICAL /
\* IMMEDIATE_INTERVENTION recommendation.
C14_MeetingExample ==
  (DetectReturned /\ args.message = Str("let's meet up, I live near you"))
  => /\ ~ret.threw
     /\ Len(ThreatsOf(ret.value.threats, "off_platform_pressure",
                      "meetingRequests")) = 1
     /\ ThreatsOf(ret.value.threats, "off_platform_pressure",
                  "meetingRequests")[1].riskScore = Risk(10)
     /\ ThreatsOf(ret.value.threats, "off_platform_pressure",
                  "meetingRequests")[1].confidence = Pct(95)
     /\ MatchingEnhancers(args.message) = {}
     /\ locals.enhancedRisk = Risk(10)
     /\ ret.value.overallRisk = Risk(10)
     /\ \E i \in 1..Len(ret.value.recommendations) :
          /\ ret.value.recommendations[i].priority = "CRITICAL"
          /\ ret.value.recommendations[i].action = "IMMEDIATE_INTERVENTION"

C14_Witness ==
  /\ DetectValue
  /\ args.message = Str("let's meet up, I live near you")
  /\ ret.value.overallRisk = Risk(10)
  /\ ret.value.recommendations # <<>>

\* totalRisk over the entries of the set indices, added in list order from
\* entry i on
RECURSIVE Float64SumFrom(_, _, _)
Float64SumFrom(analyses, indices, i) ==
  IF i = 0 THEN Float64OfInt(0)
  ELSE The({ IF i \in indices
             THEN The({ Float64Plus(before, risk)
                        : risk \in {Float64OfRisk(
                                      analyses[i].analysis.overallRisk)} })
             ELSE before
             : before \in {Float64SumFrom(analyses, indices, i - 1)} })

\* C15: averageRisk is the sum of overallRisk over the entries that have a
\* threat divided by their number, and 0 when no entry has a threat; a list of
\* n entries without threats gives totalMessages n, threatsDetected 0,
\* highRiskMessages 0, averageRisk 0.
C15_AverageOverThreatened ==
  StatsReturned =>
    /\ ~ret.threw
    /\ (Threatened(args.analyses) # {} =>
          ret.value.averageRisk =
            Float64DivInt(Float64SumFrom(args.analyses,
                                         Threatened(args.analyses),
                                         Len(args.analyses)),
                          Cardinality(Threatened(args.analyses))))
    /\ (Threatened(args.analyses) = {} =>
          /\ ret.value.totalMessages = Len(args.analyses)
          /\ ret.value.threatsDetected = 0
          /\ ret.value.highRiskMessages = 0
          /\ ret.value.averageRisk = Float64OfInt(0))

\* two threatened entries of risk 6 and 7: averageRisk 6.5
C15_Witness ==
  /\ StatsReturned
  /\ Cardinality(Threatened(args.analyses)) = 2
  /\ ret.value.averageRisk = Float64DivInt(Float64OfInt(13), 2)

\* C16: totalMessages is the number of entries, threatsDetected the number
\* of entries with at least one threat, highRiskMessages the number of
\* entries with overallRisk >= 7, so that
\* highRiskMessages <= threatsDetected <= totalMessages.
C16_StatisticsCounts ==
  StatsReturned =>
    /\ ret.value.totalMessages = Len(args.analyses)
    /\ ret.value.threatsDetected = Cardinality(Threatened(args.analyses))
    /\ ret.value.highRiskMessages =
         Cardinality({i \in 1..Len(args.analyses) :
                        args.analyses[i].analysis.overallRisk >= Risk(7)})
    /\ ret.value.highRiskMessages <= ret.value.threatsDetected
    /\ ret.value.threatsDetected <= ret.value.totalMessages

C16_Witness ==
  /\ StatsReturned
  /\ \E i \in 1..Len(args.analyses) :
       args.analyses[i].analysis.overallRisk = Risk(7)
  /\ \E i \in 1..Len(args.analyses) :
       args.analyses[i].analysis.overallRisk = Risk(6)
  /\ ret.value.highRiskMessages = 1
  /\ ret.value.threatsDetected = 2

\* C17 as stated: for every threat type, threatTypes holds the number of
\* entries whose threats include that type, each entry counting once.
C17_TallyOncePerMessage ==
  StatsReturned =>
    \A T \in ThreatTypes :
      TallyOf(ret.value.threatTypes, T) =
        Cardinality({i \in 1..Len(args.analyses) :
                       ThreatsOfType(args.analyses[i].analysis.threats, T) > 0})

\* C17 amended: for every threat type, threatTypes holds the number of
\* threats of that type over all entries, one per hit category: an entry with
\* two threat types increments two tallies, an entry with several hit
\* categories of one type increments that tally once per category; a type
\* without threats has no key.
C17_TallyPerThreat ==
  StatsReturned =>
    /\ DOMAIN ret.value.threatTypes \subseteq ThreatTypes
    /\ \A T \in ThreatTypes :
         /\ TallyOf(ret.value.threatTypes, T) =
              SumOver(1..Len(args.analyses),
                      [i \in 1..Len(args.analyses) |->
                         ThreatsOfType(args.analyses[i].analysis.threats, T)])
         /\ (T \in DOMAIN ret.value.threatTypes
               <=> TallyOf(ret.value.threatTypes, T) > 0)

C17_Witness ==
  /\ StatsReturned
  /\ Len(args.analyses) = 2
  /\ ThreatsOfType(args.analyses[1].analysis.threats, "predatory_language") = 2
  /\ ThreatsOfType(args.analyses[2].analysis.threats, "predatory_language") = 1
  /\ ThreatsOfType(args.analyses[2].analysis.threats, "personal_info_request") = 1
  /\ ret.value.threatTypes =
       ("predatory_language" :> 3) @@ ("personal_info_request" :> 1)

\* C18: for every batch of well-formed messages and every position i, the
\* analysis of output entry i is what detectThreats returns for message i
\* alone, whatever the other messages of the batch and their order.
C18_BatchIndependent ==
  (BatchReturned /\ \A i \in 1..Len(args.messages) :
                      ~MalformedEntry(args.messages[i]))
  => /\ ~ret.threw
     /\ Len(ret.value) = Len(args.messages)
     /\ \A i \in 1..Len(args.messages) :
          /\ ret.value[i].message = TextOfEntry(args.messages[i])
          /\ AloneAnalysis(ret.value[i].message)
               = [threw |-> FALSE, value |-> ret.value[i].analysis]

C18_Witness ==
  /\ BatchReturned
  /\ ~ret.threw
  /\ Len(ret.value) = 2
  /\ ret.value[1].message = Str("i'll buy you hurry")
  /\ ret.value[2].message = Str("i'll buy you hurry")
  /\ ret.value[1].analysis.overallRisk = 8400
  /\ ret.value[2].analysis.overallRisk = 8400

\* C19: the result of detectThreats does not depend on the context argument:
\* calls with the same message and different context objects, explicit
\* sender and recipient ages included, complete alike; the age-gap enhancer
\* follows the message text only.
C19_ContextIgnored ==
  /\ \A p \in memo, q \in memo :
       p[1].message = q[1].message => p[2] = q[2]
  /\ DetectReturned =>
       \A p \in memo : p[1].message = args.message => p[2] = ret

C19_Witness ==
  /\ DetectValue
  /\ args = [message |-> Str("where do you live?"), context |-> AgesContext]
  /\ "ageGap" \notin MatchingEnhancers(args.message)
  /\ ret.value.overallRisk = Risk(9)
  /\ \E p \in memo :
       /\ p[1] = [message |-> Str("where do you live?"), context |-> EmptyContext]
       /\ p[2] = ret
  /\ \E p \in memo, q \in memo :
       /\ p[1] = [message |-> Str("where do you live? i'm 25"),
                  context |-> EmptyContext]
       /\ q[1] = [message |-> Str("where do you live? i'm 25"),
                  context |-> AgesContext]
       /\ p[2] = q[2]
       /\ p[2].value.overallRisk = Risk(10)

\* C20: no call of detectThreats, batchAnalyze or getThreatStatistics changes
\* the catalog or the enhancer rules the constructor built (the lastIndex of
\* their regex objects is all a call could write), so in every interleaving
\* of the calls of concurrent callers each call completes as it does when
\* it runs alone.
C20_CallsLeaveCatalogAlone ==
  /\ lastIndex = FreshLastIndex
  /\ \A c \in Callers :
       pc[c] = "returned" => ret[c] = AloneCompletion(args[c])

C20_Witness ==
  /\ pc[1] = "returned" /\ pc[2] = "returned"
  /\ op[1] = "batchAnalyze" /\ ~ret[1].threw
  /\ ret[1].value[2].analysis.overallRisk = 8400
  /\ op[2] = "detectThreats" /\ ~ret[2].threw
  /\ args[2].message = Str("i'll buy you hurry")
  /\ ret[2].value.overallRisk = 8400
  /\ lastIndex = FreshLastIndex

C22_UnknownCategoryFallsBack ==
  DescribeReturned =>
    /\ ~ret.threw
    /\ IsString(ret.value)
    /\ ret.value.s # ""
    /\ (args.category \notin RegisteredCategories[args.type]
          <=> ret.value = FallbackOf(args.type))

\* C23: detectThreats returns exactly one threat record per hit category,
\* none for a category that is not hit, and each record carries the static
\* riskScore and confidence of its category, however many patterns of the
\* category match.
C23_OneThreatPerHitCategory ==
  DetectValue =>
    The({ /\ Len(ret.value.threats) = Cardinality(hits)
          /\ { [type |-> ret.value.threats[i].type,
                category |-> ret.value.threats[i].category,
                riskScore |-> ret.value.threats[i].riskScore,
                confidence |-> ret.value.threats[i].confidence]
               : i \in 1..Len(ret.value.threats) } = hits
          : hits \in {HitCategories(args.message)} })

C23_Witness ==
  /\ DetectValue
  /\ Len(ret.value.threats) = 1
  /\ ret.value.threats[1].category = "trustBuilding"
  /\ Len(ret.value.threats[1].matches) = 2
  /\ ret.value.threats[1].riskScore = Risk(8)
  /\ ret.value.threats[1].confidence = Pct(85)

\* the patterns of a category of a threat type
PatternsOf(type, category) ==
  The({ entries[c][2].patterns
        : <<entries, c>> \in
            { ec \in { <<Groups[g].entries, k>> : g \in 1..Len(Groups), k \in 1..4 } :
                /\ ec[2] <= Len(ec[1])
                /\ ec[1][ec[2]][1] = category
                /\ \E g \in 1..Len(Groups) :
                     Groups[g].type = type /\ Groups[g].entries = ec[1] } })

\* C24: every threat record of a result of detectThreats has a non-empty
\* matches list, and each of its spans comes from a pattern of the record's
\* category that matches the message: a category yields a record only if
\* one of its patterns matched.
C24_ThreatHasMatch ==
  DetectValue =>
    \A i \in 1..Len(ret.value.threats) :
      The({ /\ Len(threat.matches) > 0
            /\ \A j \in 1..Len(threat.matches) :
                 \E k \in 1..Len(patterns) :
                   /\ patterns[k].source = threat.matches[j].pattern
                   /\ Occurs(patterns[k], args.message)
            : <<threat, patterns>> \in
                { <<ret.value.threats[i],
                    PatternsOf(ret.value.threats[i].type,
                               ret.value.threats[i].category)>> } })

C24_Witness ==
  /\ DetectValue
  /\ args.message.s = "where do you live? i'm 25"
  /\ Len(ret.value.threats) = 1
  /\ ret.value.threats[1].category = "directRequests"
  /\ Len(ret.value.threats[1].matches) = 1

FindReturned == pc = "returned" /\ op = "findPatternMatches"

\* the least position at which R matches S, 1-based
LeastOccurrence(R, S) ==
  CHOOSE i \in 1..Len(S.folded) :
    /\ AltAt(R, S.folded, i) # 0
    /\ \A h \in 1..(i - 1) : AltAt(R, S.folded, h) = 0

\* the span of the first occurrence of R in S
FirstSpan(R, S) ==
  LET i == LeastOccurrence(R, S)
      n == Len(R.pre) + Len(R.alts[AltAt(R, S.folded, i)]) + Len(R.post)
  IN [text |-> SubSeq(S.s, i, i + n - 1), pattern |-> R.source, index |-> i - 1]

\* the indices of the patterns that occur in S, in pattern-list order
OccurringPatterns(patterns, S) ==
  LET occurs(k) == Occurs(patterns[k], S)
  IN SelectSeq([k \in 1..Len(patterns) |-> k], occurs)

\* C25: findPatternMatches returns, in pattern-list order, one span for each
\* pattern that occurs in the text compared case-insensitively - the matched
\* text, the pattern source and the offset of its first occurrence - and no
\* span for a pattern that does not occur, so never more spans than patterns.
C25_FirstOccurrencePerPattern ==
  (FindReturned /\ ~ret.threw) =>
    The({ /\ Len(ret.value) = Len(occ)
          /\ Len(ret.value) <= Len(args.patterns)
          /\ \A j \in 1..Len(occ) :
               ret.value[j] = FirstSpan(args.patterns[occ[j]], args.message)
          : occ \in {OccurringPatterns(args.patterns, args.message)} })

C25_Witness ==
  /\ FindReturned
  /\ args.message.s = "hi Where do you live? where do you live?"
  /\ Len(ret.value) = 1
  /\ ret.value[1] = [text |-> "Where do you live", pattern |-> "where do you live",
                     index |-> 3]

\* the lists with the entries of the list l in another order
Reorderings(l) ==
  { [i \in 1..Len(l) |-> l[p[i]]] :
      p \in { f \in [1..Len(l) -> 1..Len(l)] :
                \A i, j \in 1..Len(l) : f[i] = f[j] => i = j } }

\* the two parts of the list l cut after entry k
Splits(l) ==
  { <<SubSeq(l, 1, k), SubSeq(l, k + 1, Len(l))>> : k \in 0..Len(l) }

\* the fold of a list: the counts, the tallies and the risk summed
FoldOf(l) ==
  forEachAnalysisFrom(l, [totalMessages |-> Len(l), threatsDetected |-> 0,
                          highRiskMessages |-> 0, threatTypes |-> NoTally,
                          totalRisk |-> Float64OfInt(0)], 1)

\* tallies summed key by key
SumTallies(s, t) ==
  [k \in DOMAIN s \cup DOMAIN t |->
     (IF k \in DOMAIN s THEN s[k] ELSE 0) + (IF k \in DOMAIN t THEN t[k] ELSE 0)]

\* the combination of the folds of two lists: counts and tallies summed, the
\* average taken from the summed risk and the summed threatened count
CombineFolds(a, b) ==
  [totalMessages |-> a.totalMessages + b.totalMessages,
   threatsDetected |-> a.threatsDetected + b.threatsDetected,
   highRiskMessages |-> a.highRiskMessages + b.highRiskMessages,
   threatTypes |-> SumTallies(a.threatTypes, b.threatTypes),
   averageRisk |->
     IF a.threatsDetected + b.threatsDetected > 0
     THEN Float64DivInt(Float64Plus(a.totalRisk, b.totalRisk),
                        a.threatsDetected + b.threatsDetected)
     ELSE Float64OfInt(0)]

\* the statistics of every other order of the list and of every cut of it
Rearranged(l) ==
  { getThreatStatistics(m) : m \in Reorderings(l) }
  \cup { CombineFolds(FoldOf(c[1]), FoldOf(c[2])) : c \in Splits(l) }

Counts(stats) ==
  [totalMessages |-> stats.totalMessages,
   threatsDetected |-> stats.threatsDetected,
   highRiskMessages |-> stats.highRiskMessages,
   threatTypes |-> stats.threatTypes]

WholeRisks(l) ==
  \A i \in 1..Len(l) : l[i].analysis.overallRisk % RiskUnit = 0

\* C26 as stated: getThreatStatistics returns the same statistics for every
\* permutation of the list, and the statistics of a concatenation are the
\* combination of the statistics of its two parts.
C26_FoldOrderIndependent ==
  StatsReturned => Rearranged(args.analyses) = {ret.value}

\* C26, amended: the counts and the tallies are the same for every
\* permutation of the list and for every cut of it, and so is averageRisk
\* when at most two entries carry threats or every overallRisk is a whole
\* number; with three or more fractional risks the sum is rounded after each
\* addition and the average may differ in its last place.
C26_CountsOrderIndependent ==
  StatsReturned =>
    The({ /\ { Counts(r) : r \in others } = {Counts(ret.value)}
          /\ (Cardinality(Threatened(args.analyses)) <= 2
              \/ WholeRisks(args.analyses))
               => others = {ret.value}
          : others \in {Rearranged(args.analyses)} })

\* three fractional risks, 7 + 9.1 + 9.6: the counts agree in every order
\* and the averages do not
C26_Witness ==
  /\ StatsReturned
  /\ Len(args.analyses) = 3
  /\ ret.value.threatsDetected = 3
  /\ DOMAIN ret.value.threatTypes =
       {"predatory_language", "personal_info_request"}
  /\ \E r \in Rearranged(args.analyses) :
       /\ Counts(r) = Counts(ret.value)
       /\ r.averageRisk # ret.value.averageRisk

\* C27: with the shipped catalog every result of detectThreats has
\* recommendations exactly when it has threats, an overallRisk of 0 or of at
\* least 6, and no LOW / MONITOR recommendation; it has the MEDIUM / WARNING
\* recommendation only when the base risk is 6 and no context enhancer matches.
C27_TiersOfShippedCatalog ==
  DetectValue =>
    The({ /\ (ret.value.recommendations # <<>>) <=> (ret.value.threats # <<>>)
          /\ ret.value.overallRisk = 0 \/ ret.value.overallRisk >= Risk(6)
          /\ \A i \in 1..Len(tiers) : tiers[i] # <<"LOW", "MONITOR">>
          /\ (\E i \in 1..Len(tiers) : tiers[i] = <<"MEDIUM", "WARNING">>) =>
               /\ SetMax({h.riskScore : h \in HitCategories(args.message)})
                    = Risk(6)
               /\ MatchingEnhancers(args.message) = {}
          : tiers \in {TiersOf(ret.value.recommendations)} })

\* a single hit of a category of score 6, no enhancer
C27_Witness ==
  /\ DetectValue
  /\ ret.value.overallRisk = Risk(6)
  /\ TiersOf(ret.value.recommendations) = << <<"MEDIUM", "WARNING">> >>
  /\ MatchingEnhancers(args.message) = {}
  /\ Len(ret.value.threats) = 1

\* the ids of the sockets a user has open, and those of a family
SocketIdsOfUser(userId) ==
  {socket.id : socket \in {x \in sockets : x.user._id = userId}}

SocketIdsOfFamily(familyId) ==
  {socket.id : socket \in {x \in sockets : x.user.familyId = familyId}}

\* C28: after any sequence of connections and disconnections, every user
\* with an open socket has an entry in connectedUsers that maps to one of the
\* user's open sockets, so that notifyUser reaches the user.
C28_ConnectedUserReachable ==
  /\ \A userId \in UserIds :
       SocketIdsOfUser(userId) # {} =>
         /\ MapHas(connectedUsers, userId)
         /\ connectedUsers[userId] \in SocketIdsOfUser(userId)
  /\ handled.event = "notifyUser" /\ SocketIdsOfUser(handled.userId) # {} =>
       /\ handled.result.value
       /\ handled.result.to \in SocketIdsOfUser(handled.userId)

\* C29: after any sequence of connections and disconnections, and of calls
\* of cleanup, familyRooms maps no family to the empty set, and the set of a
\* family holds exactly the ids of the open sockets of the family's users.
C29_FamilyRoomsTrackSockets ==
  /\ \A familyId \in DOMAIN familyRooms : familyRooms[familyId] # {}
  /\ \A familyId \in FamilyIds :
       (IF MapHas(familyRooms, familyId) THEN familyRooms[familyId] ELSE {})
         = SocketIdsOfFamily(familyId)

\* the last socket of family f2 has gone, two users of f1 stay
C29_Witness ==
  /\ handled.event = "disconnect"
  /\ issued = 3
  /\ DOMAIN familyRooms = {"f1"}
  /\ Cardinality(familyRooms["f1"]) = 2
  /\ SocketIdsOfFamily("f2") = {}

\* C30: retryCount never exceeds maxRetries, it is 0 after a successful
\* connect, and attempts that all fail end with the exit of the process at
\* the attempt after the last retry, not later.
C30_RetriesBoundedAndReset ==
  /\ retryCount <= maxRetries
  /\ databaseEvent = "connected" => retryCount = 0
  /\ failures <= maxRetries + 1
  /\ failures = maxRetries + 1 => exited

====
